-------------------------------- MODULE Slots --------------------------------
(***************************************************************************)
(* What the admission code of the server promises, without sockets,        *)
(* counters, probes or scans: some connections are inside, the others      *)
(* stand in a line, and only a place that falls free lets the first of     *)
(* those who stay in.  Module Admission is shown to implement it.          *)
(***************************************************************************)
EXTENDS Naturals, FiniteSets, Sequences

CONSTANTS Fd, MaxPlayers

VARIABLES inside, line

svars == <<inside, line>>

InLine == {line[i] : i \in 1..Len(line)}

Init == inside = {} /\ line = <<>>

\* A newcomer finds a place.
Enter(fd) ==
    /\ fd \notin inside \cup InLine
    /\ inside' = inside \cup {fd}
    /\ line' = line

\* A newcomer finds the game full.
Join(fd) ==
    /\ fd \notin inside \cup InLine
    /\ Cardinality(inside) >= MaxPlayers
    /\ line' = Append(line, fd)
    /\ inside' = inside

\* Somebody, inside or in line, leaves (or a newcomer is refused); then the
\* first of the line may leave it, and the last one to do so may take a free
\* place.
Serve(stay, rest) ==
    \E k \in 0..Len(rest) :
        /\ line' = SubSeq(rest, k + 1, Len(rest))
        /\ \/ inside' = stay
           \/ /\ k > 0
              /\ Cardinality(stay) < MaxPlayers
              /\ inside' = stay \cup {rest[k]}

Leave ==
    \/ \E fd \in Fd : Serve(inside \ {fd}, line)
    \/ \E i \in 1..Len(line) :
         Serve(inside, SubSeq(line, 1, i - 1) \o SubSeq(line, i + 1, Len(line)))

\* The server stops: every connection is gone.
Stop == inside' = {} /\ line' = <<>>

Next == (\E fd \in Fd : Enter(fd) \/ Join(fd)) \/ Leave \/ Stop

Spec == Init /\ [][Next]_svars

=============================================================================
