-------------------------------- MODULE Wire ---------------------------------
(***************************************************************************)
(* The input of one socket: accept_input puts what was read into a ring    *)
(* and counts the lines, handle_commands takes one line a turn, and both   *)
(* it and output_buf take a count of -1 for a dropped connection (io.c).   *)
(*                                                                         *)
(* A character is one of the five kinds the code tells apart; what it      *)
(* drops (tabs, NUL and the like) is left out.  Of the output only how     *)
(* full its ring is matters here.                                          *)
(***************************************************************************)
EXTENDS Integers, Sequences, SequencesExt, FiniteSets, FiniteSetsExt

CONSTANTS
    IBUFSIZE,   \* 2048 in the code
    CharSize,   \* 256 in the code: values of a char; -1 is CharSize - 1
    MaxRead     \* 127 in the code: characters of one read

ASSUME WireAssumption ==
    /\ IBUFSIZE \in Nat /\ IBUFSIZE > 2
    /\ MaxRead \in Nat \ {0}
    /\ CharSize \in Nat /\ CharSize > MaxRead + 1

Typed == {"a", "%", "CR", "LF", "BS"}   \* from the peer
Stored == {"a", "%", "LF"}              \* in the ring
Dropped == CharSize - 1

VARIABLES
    open,       \* Ply[fd].io is there
    pc,         \* the function sock_loop calls next
    input, ihead, itail, commands,
    intrpt,     \* its first bit: output may be shown
    out,        \* the output ring: empty, some, or high, over 3/4 full
    text,       \* history: what the peer typed and the server has to handle
    slips       \* history: what has happened to the count of lines

vars == <<open, pc, input, ihead, itail, commands, intrpt, out, text, slips>>
ring_vars == <<input, ihead, itail, commands, text, slips>>

\* A newline was rubbed out; a newline was overwritten in a full ring; half of
\* a doubled % was overwritten and the other half rubbed out; the count of
\* lines has been -1.
Slip == {"erased", "overrun", "torn", "flooded"}

TypeOK ==
    /\ open \in BOOLEAN /\ intrpt \in BOOLEAN
    /\ pc \in {"io_check", "output_buf", "handle_commands", "update_game"}
    /\ input \in [0..IBUFSIZE - 1 -> Stored \cup {"unset"}]
    /\ ihead \in 0..IBUFSIZE - 1 /\ itail \in 0..IBUFSIZE - 1
    /\ commands \in 0..CharSize - 1
    /\ out \in {"empty", "some", "high"}
    /\ text \in Seq(Stored) /\ Len(text) < IBUFSIZE
    /\ slips \subseteq Slip

Init ==
    /\ open = TRUE /\ pc = "io_check"
    /\ input = [i \in 0..IBUFSIZE - 1 |-> "unset"]
    /\ ihead = 0 /\ itail = 0 /\ commands = 0
    /\ intrpt = TRUE /\ out = "some"     \* the name is asked for
    /\ text = <<>> /\ slips = {}

-----------------------------------------------------------------------------
(* The ring, as a record of its variables, under one character.            *)

Ring == [input |-> input, head |-> ihead, tail |-> itail, commands |-> commands,
         text |-> text, slips |-> slips, last |-> "none"]

Pending(s) == (s.head - s.tail) % IBUFSIZE

PutFull(s, c) ==
    LET full == Pending(s) = IBUFSIZE - 1
    IN [s EXCEPT !.input[s.head] = c,
                 !.head = (@ + 1) % IBUFSIZE,
                 !.text = IF full THEN Tail(Append(@, c)) ELSE Append(@, c),
                 !.slips = IF full /\ Head(Append(s.text, c)) = "LF"
                           THEN @ \cup {"overrun"} ELSE @]
\* One character goes in; in a full ring the oldest goes out.
Put(s, c) ==
    LET full == Pending(s) = IBUFSIZE - 1
    IN [PutFull(s, c) EXCEPT !.tail = IF full THEN (@ + 1) % IBUFSIZE ELSE @]

\* Rubbing out takes a doubled % as one.
Erase(s) ==
    LET prev == IF s.head - 1 < 0 THEN IBUFSIZE - 1 ELSE s.head - 1
        two == s.input[prev] = "%"
        torn == two /\ Pending(s) = 1
        back == s.head - (IF two THEN 2 ELSE 1)
    IN [s EXCEPT !.head = IF back < 0 THEN IBUFSIZE + back ELSE back,
                 !.text = IF torn \/ ~two THEN Front(@) ELSE Front(Front(@)),
                 !.slips = @ \cup (IF torn THEN {"torn"} ELSE {})
                             \cup (IF s.input[prev] = "LF" THEN {"erased"} ELSE {})]

CountAsFlag(s) == [s EXCEPT !.commands = 1]
Count(s) ==
    LET n == (s.commands + 1) % CharSize
    IN [s EXCEPT !.commands = n,
                 !.slips = IF n = Dropped THEN @ \cup {"flooded"} ELSE @]

\* One round of the loop in accept_input.
Accept(s, c) ==
    LET t == [s EXCEPT !.last = c]
    IN CASE c = "LF" /\ s.last = "CR" -> s
         [] c \in {"CR", "LF"} /\ ~(c = "LF" /\ s.last = "CR") -> Put(Count(t), "LF")
         [] c = "BS" -> IF s.head # s.tail THEN Erase(t) ELSE t
         [] c = "%" -> Put(Put(t, c), c)
         [] c = "a" -> Put(t, c)

\* The loop over what was read.
Accepted(chars) ==
    LET loop[n \in 0..Len(chars)] ==
            IF n = 0 THEN Ring ELSE Accept(loop[n - 1], chars[n])
    IN loop[Len(chars)]

Becomes(s) ==
    /\ input' = s.input /\ ihead' = s.head /\ itail' = s.tail
    /\ commands' = s.commands /\ text' = s.text /\ slips' = s.slips

disconnect ==
    /\ open' = FALSE
    /\ UNCHANGED <<pc, ring_vars, intrpt, out>>

-----------------------------------------------------------------------------
(* The functions of sock_loop.                                             *)

\* A new connection on the same socket.
accept_connect ==
    /\ ~open
    /\ open' = TRUE /\ pc' = "io_check"
    /\ input' = [i \in 0..IBUFSIZE - 1 |-> "unset"]
    /\ ihead' = 0 /\ itail' = 0 /\ commands' = 0
    /\ intrpt' = TRUE /\ out' = "some"
    /\ text' = <<>> /\ slips' = {}

Calls(f, g) == open /\ pc = f /\ pc' = g

\* The newline that ends the read counts although it may be dropped.
accept_input(chars) ==
    /\ Calls("io_check", "output_buf")
    /\ Becomes(Accepted(chars))
    /\ intrpt' = (Last(chars) \in {"CR", "LF"})
    /\ UNCHANGED <<open, out>>

NothingRead ==
    /\ Calls("io_check", "output_buf")
    /\ UNCHANGED <<open, ring_vars, intrpt, out>>

PeerGone == open /\ pc = "io_check" /\ disconnect

output_buf ==
    \/ open /\ pc = "output_buf" /\ out # "empty" /\ commands = Dropped /\ disconnect
    \/ /\ Calls("output_buf", "handle_commands")
       /\ out # "empty" => commands # Dropped
       /\ out' = IF intrpt \/ out = "high" THEN "empty" ELSE out
       /\ UNCHANGED <<open, ring_vars, intrpt>>

\* What handle_commands takes: up to the first newline, or everything.
LineEnd(s) ==
    LET at == {k \in 1..Pending(s) : s.input[(s.tail + k - 1) % IBUFSIZE] = "LF"}
    IN IF at = {} THEN Pending(s) ELSE Min(at)

TakeUncounted(s) ==
    [s EXCEPT !.tail = (@ + LineEnd(s)) % IBUFSIZE,
              !.text = SubSeq(@, LineEnd(s) + 1, Len(@))]
Take(s) == [TakeUncounted(s) EXCEPT !.commands = (@ - 1) % CharSize]

\* The function that reads the line may print, stop output, or disconnect.
handle_commands ==
    \/ open /\ pc = "handle_commands" /\ commands = Dropped /\ disconnect
    \/ /\ Calls("handle_commands", "update_game")
       /\ commands = 0 \/ (ihead = itail /\ commands # Dropped)
       /\ UNCHANGED <<open, ring_vars, intrpt, out>>
    \/ /\ Calls("handle_commands", "update_game")
       /\ commands \notin {0, Dropped} /\ ihead # itail
       /\ Becomes(Take(Ring))
       /\ intrpt' \in {intrpt, FALSE}
       /\ out' \in IF out = "high" THEN {"high"} ELSE {out, "some", "high"}
       /\ open' \in BOOLEAN

update_game ==
    /\ Calls("update_game", "io_check")
    /\ out' \in IF out = "high" THEN {"high"} ELSE {out, "some", "high"}
    /\ UNCHANGED <<open, ring_vars, intrpt>>

Next ==
    \/ \E n \in 1..MaxRead : \E chars \in [1..n -> Typed] : accept_input(chars)
    \/ accept_connect \/ NothingRead \/ PeerGone \/ output_buf \/ handle_commands \/ update_game

Spec == Init /\ [][Next]_vars

-----------------------------------------------------------------------------
(* Properties.                                                             *)

Contents == [k \in 1..Pending(Ring) |-> input[(itail + k - 1) % IBUFSIZE]]
Newlines == Cardinality({k \in DOMAIN Contents : Contents[k] = "LF"})

\* Whatever is typed, rubbed out, handled and overwritten, around the end of
\* the array: the ring holds the text that is still to be handled, in order.
RingHoldsText == TypeOK /\ ("torn" \notin slips => Contents = text)

\* Each line is counted once, so that a command is one line the peer has
\* ended, unless newlines were rubbed out, overwritten or too many at once.
OneCommandPerLine == slips = {} => commands = Newlines

\* The slips that lose a newline leave the count too high, never too low: no
\* line that the ring holds is left there for want of a count, unless 255
\* lines or more were waiting at once.
NoLineStuck == slips \cap {"torn", "flooded"} = {} => Newlines <= commands

=============================================================================
