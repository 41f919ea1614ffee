-------------------------------- MODULE Things --------------------------------
(***************************************************************************)
(* Where every object of the game is: on a floor, in the inventory of a    *)
(* player or a monster, worn or held (ready[]), inside a container, or in  *)
(* the file of a player who is away.  The handlers are those of src/src    *)
(* that move, save or free objects: the commands get, drop, put, wear,     *)
(* give, steal, ... , what spells, fights, deaths and the turns of         *)
(* monsters do to objects, and the login and the end of a session.         *)
(*                                                                         *)
(* Everybody is in one room, which only allows more.  Of its flags a       *)
(* handler sees one of Kinds: RDUMPR, RSLIME or neither.  What a thing is  *)
(* made of and what the dice and the weights say is left open; a handler   *)
(* that may refuse may always refuse.  Gold, heaps of it included, is left *)
(* out.                                                                    *)
(*                                                                         *)
(* del_obj_crt tells a worn object from a carried one by parent_crt and    *)
(* takes it out of ready[wearflag - 1], wherever it really is.  A handler  *)
(* that so leaves a freed or dropped object in ready[] ends the story      *)
(* (fate = "corrupt"): what later calls do with it is undefined.           *)
(***************************************************************************)
EXTENDS Naturals, FiniteSets

CONSTANTS
    Player,
    Mon,       \* a monster; it wears nothing
    Thing,
    Box,       \* things that are containers
    Slot,      \* the indices of ready[] in use
    wearflag,  \* the slot of a thing, Nil when it cannot be worn or held
    Scroll,    \* things that are read, drunk or zapped
    Nil,       \* the null pointer
    Cap        \* 80: objects get accepts and write_crt_to_mem saves

ASSUME ThingsAssumption ==
    /\ IsFiniteSet(Player) /\ IsFiniteSet(Thing)
    /\ Mon \notin Player
    /\ Box \subseteq Thing /\ Scroll \subseteq Thing \ Box
    /\ Nil \notin Thing /\ Nil \notin Slot /\ Nil \notin Player
    /\ {"wield", "held"} \subseteq Slot
    /\ wearflag \in [Thing -> Slot \cup {Nil}]
    /\ Cap \in Nat \ {0}

Kinds == {"plain", "dump", "slime"}

Holder == Player \cup {Mon}

VARIABLES
    mem,      \* the objects in memory and the files of the players
    playing,  \* players in the game
    due,      \* the receiver whose savegame `give' still owes, or Nil
    fate      \* "up", or "corrupt" once a list holds a freed object

vars == <<mem, playing, due, fate>>

\* What savegame writes: an inventory, with what is in its containers.
Files == [inv : SUBSET Thing, inside : [Box -> SUBSET Thing]]

Memory ==
    [inv : [Holder -> SUBSET Thing],
     ready : [Player -> [Slot -> Thing \cup {Nil}]],
     floor : SUBSET Thing,
     inside : [Box -> SUBSET Thing],
     shots : [Box -> Nat],          \* shotscur of a container
     carried : SUBSET Thing,        \* parent_crt is not null
     fresh : SUBSET Thing,          \* not loaded yet
     freed : SUBSET Thing,
     lost : SUBSET Thing,           \* history: dropped by a handler, neither
                                    \* freed nor listed
     file : [Player -> Files],
     loose : [Player -> SUBSET Thing]]  \* history: in the file of the
                           \* player, and taken from him with no save since

TypeOK ==
    /\ mem \in Memory
    /\ playing \subseteq Player
    /\ due \in Player \cup {Nil}
    /\ fate \in {"up", "corrupt"}

\* Things in the world are new, except some that lie on the floor.
Init ==
    /\ \E S \in SUBSET Thing :
         mem = [inv |-> [h \in Holder |-> {}],
                ready |-> [p \in Player |-> [s \in Slot |-> Nil]],
                floor |-> S,
                inside |-> [b \in Box |-> {}],
                shots |-> [b \in Box |-> 0],
                carried |-> {}, fresh |-> Thing \ S, freed |-> {}, lost |-> {},
                file |-> [p \in Player |->
                              [inv |-> {}, inside |-> [b \in Box |-> {}]]],
                loose |-> [p \in Player |-> {}]]
    /\ playing = {}
    /\ due = Nil
    /\ fate = "up"

-----------------------------------------------------------------------------
(* The lists.  Operators on sets stand for a call per element.  Variants   *)
(* just before an operator are slips a change of the code could introduce; *)
(* no action uses them, they show what each property catches.              *)

worn(m, p) == {m.ready[p][s] : s \in Slot} \ {Nil}
Contents(m, S) == UNION {m.inside[b] : b \in S \cap Box}
has(m, p) ==
    LET S == m.inv[p] \cup worn(m, p) IN S \cup Contents(m, S)
Kept(f) == f.inv \cup UNION {f.inside[b] : b \in f.inv \cap Box}

add_obj_crtNoParent(m, S, h) == [m EXCEPT !.inv[h] = @ \cup S]
add_obj_crt(m, S, h) ==
    [m EXCEPT !.inv[h] = @ \cup S, !.carried = @ \cup S]

del_obj_crt(m, o, h) ==
    IF o \in m.carried
    THEN [m EXCEPT !.inv[h] = @ \ {o}, !.carried = @ \ {o}]
    ELSE [m EXCEPT !.ready[h][wearflag[o]] = Nil]
\* The same for carried objects.
Uncarry(m, S, h) == [m EXCEPT !.inv[h] = @ \ S, !.carried = @ \ S]

add_obj_rom(m, S) == [m EXCEPT !.floor = @ \cup S]
del_obj_rom(m, S) == [m EXCEPT !.floor = @ \ S]

\* add_obj_obj and the shotscur++ of its callers; del_obj_obj and shotscur--.
add_obj_obj(m, S, b) ==
    [m EXCEPT !.inside[b] = @ \cup S, !.shots[b] = @ + Cardinality(S)]
del_obj_objUncounted(m, S, b) == [m EXCEPT !.inside[b] = @ \ S]
del_obj_obj(m, S, b) ==
    [m EXCEPT !.inside[b] = @ \ S, !.shots[b] = @ - Cardinality(S)]

\* free_obj frees the contents of a container with it.
free_obj(m, S) ==
    [m EXCEPT !.freed = @ \cup S \cup Contents(m, S),
              !.inside = [b \in Box |-> IF b \in S THEN {} ELSE @[b]],
              !.shots = [b \in Box |-> IF b \in S THEN 0 ELSE @[b]]]

Forget(m, S) == [m EXCEPT !.lost = @ \cup S]
load_obj(m, S) == [m EXCEPT !.fresh = @ \ S]
Unready(m, p, S) ==
    [m EXCEPT !.ready[p] = [s \in Slot |-> IF @[s] \in S THEN Nil ELSE @[s]]]

\* count_inv and write_crt_to_mem: of more than 80 objects the last are left
\* out.  They are sorted by name, so which ones is left open.
AtMost(S) ==
    {T \in SUBSET S : Cardinality(T) = Cap
                          \/ (T = S /\ Cardinality(S) <= Cap)}

\* The file of a player who keeps T.
Written(m, p, T) ==
    [m EXCEPT !.file[p] =
        [inv |-> T, inside |-> [b \in Box |-> IF b \in T THEN m.inside[b] ELSE {}]]]
savegame(m, p) == {Written(m, p, T) : T \in AtMost(m.inv[p] \cup worn(m, p))}

\* A step to m.  What the players in U lose by it is not saved.
Becomes(m, U) ==
    mem' = [m EXCEPT !.loose =
        [p \in Player |->
            (@[p] \cup (IF p \in U THEN has(mem, p) ELSE {}))
                \cap (Kept(m.file[p]) \ has(m, p))]]

\* The end of a handler that saves p, and of one that saves nobody.
Saved(m, p) ==
    \E n \in savegame(m, p) : Becomes(n, {}) /\ UNCHANGED <<playing, due, fate>>
Unsaved(m) == Becomes(m, Player) /\ UNCHANGED <<playing, due, fate>>
Corrupt(m) ==
    Becomes(m, Player) /\ fate' = "corrupt" /\ UNCHANGED <<playing, due>>

\* A handler starts.
Turn(p) == fate = "up" /\ due = Nil /\ p \in playing
Else == fate = "up" /\ due = Nil

Boxes(p) == Box \cap (mem.floor \cup mem.inv[p] \cup worn(mem, p))
Room80(p) == Cardinality(mem.inv[p]) # Cap

-----------------------------------------------------------------------------
(* get, drop and put (command2.c), store (command13.c), discard.           *)

Get(p, o) ==
    /\ Turn(p) /\ o \in mem.floor /\ Room80(p)
    /\ LET m == del_obj_rom(mem, {o})
       IN \/ Unsaved(add_obj_crt(m, {o}, p))
          \* a quest: saved before the object is in a list again
          \/ \E n \in savegame(m, p) : Unsaved(add_obj_crt(n, {o}, p))

GetFrom(p, b, o) ==
    /\ Turn(p) /\ b \in Boxes(p) /\ o \in mem.inside[b] /\ Room80(p)
    /\ Unsaved(add_obj_crt(del_obj_obj(mem, {o}, b), {o}, p))

\* get_all_rom takes objects until the inventory has 80.
get_all_rom(p, S) ==
    LET n == Cardinality(mem.inv[p])
    IN /\ Turn(p) /\ S # {} /\ S \subseteq mem.floor
       /\ n # Cap
       /\ n > Cap \/ n + Cardinality(S) <= Cap
       /\ Unsaved(add_obj_crt(del_obj_rom(mem, S), S, p))

\* get_all_obj does not look at the inventory's size.
get_all_obj(p, b, S) ==
    /\ Turn(p) /\ b \in Boxes(p) /\ S # {} /\ S \subseteq mem.inside[b]
    /\ Unsaved(add_obj_crt(del_obj_obj(mem, S, b), S, p))

\* On a floor, in a dump, in slime.
Dropped(m, S, k) == IF k = "plain" THEN add_obj_rom(m, S) ELSE free_obj(m, S)

DropSavedFirst(p, o, k) ==
    /\ Turn(p) /\ o \in mem.inv[p]
    /\ \E m \in savegame(mem, p) :
          Becomes(Dropped(Uncarry(m, {o}, p), {o}, k), {})
    /\ UNCHANGED <<playing, due, fate>>
Drop(p, o, k) ==
    /\ Turn(p) /\ o \in mem.inv[p]
    /\ o \in Box => mem.shots[o] = 0
    /\ Saved(Dropped(Uncarry(mem, {o}, p), {o}, k), p)

\* "Clunk": a container that is not empty; in slime it goes nowhere.
DropFull(p, b, k) ==
    /\ Turn(p) /\ b \in Box \cap mem.inv[p] /\ mem.shots[b] > 0
    /\ k # "dump"
    /\ LET m == Uncarry(mem, {b}, p)
       IN Unsaved(IF k = "plain" THEN add_obj_rom(m, {b}) ELSE Forget(m, {b}))

drop_all_rom(p, S, k) ==
    /\ Turn(p) /\ S # {} /\ S \subseteq mem.inv[p]
    /\ Saved(Dropped(Uncarry(mem, S, p), S, k), p)

\* drop ... in a container, which may devour it.
Put(p, o, b) ==
    /\ Turn(p) /\ o \in mem.inv[p] \ Box /\ b \in Boxes(p)
    /\ LET m == Uncarry(mem, {o}, p)
       IN Unsaved(add_obj_obj(m, {o}, b)) \/ Unsaved(free_obj(m, {o}))

\* drop all in a container; one that devours ends the handler unsaved.
drop_all_obj(p, S, b) ==
    /\ Turn(p) /\ S # {} /\ S \subseteq mem.inv[p] \ Box /\ b \in Boxes(p)
    /\ LET m == Uncarry(mem, S, p)
       IN Saved(add_obj_obj(m, S, b), p) \/ Unsaved(free_obj(m, S))

\* store: into a container of the room; only the room is saved.
Store(p, o, b) ==
    /\ Turn(p) /\ o \in mem.inv[p] \ Box /\ b \in Box \cap mem.floor
    /\ Unsaved(add_obj_obj(Uncarry(mem, {o}, p), {o}, b))

Discard(p, o) ==
    /\ Turn(p) /\ o \in mem.inv[p]
    /\ o \in Box => mem.shots[o] = 0
    /\ Saved(free_obj(Uncarry(mem, {o}, p), {o}), p)

-----------------------------------------------------------------------------
(* wear, wield, hold and remove (command3.c).                              *)

Readied(m, p, o, s) == [Uncarry(m, {o}, p) EXCEPT !.ready[p][s] = o]

WearTwice(p, o) ==
    /\ Turn(p) /\ o \in mem.inv[p] /\ wearflag[o] # Nil
    /\ mem.ready[p][wearflag[o]] = Nil
    /\ Unsaved([mem EXCEPT !.ready[p][wearflag[o]] = o])
\* wear and wield; what is of another alignment burns and falls down.
Wear(p, o) ==
    /\ Turn(p) /\ o \in mem.inv[p] /\ wearflag[o] # Nil
    /\ \/ /\ mem.ready[p][wearflag[o]] = Nil
          /\ Unsaved(Readied(mem, p, o, wearflag[o]))
       \/ Unsaved(add_obj_rom(Uncarry(mem, {o}, p), {o}))

\* hold takes what is to be wielded as well; magic dust is used up by it,
\* and the horns that change who holds them are in no list any more.
Hold(p, o) ==
    /\ Turn(p) /\ o \in mem.inv[p] /\ wearflag[o] \in {"wield", "held"}
    /\ mem.ready[p]["held"] = Nil
    /\ \/ Unsaved(Readied(mem, p, o, "held"))
       \/ wearflag[o] = "held" /\ Unsaved(free_obj(Uncarry(mem, {o}, p), {o}))
       \/ wearflag[o] = "held" /\ Unsaved(Forget(Uncarry(mem, {o}, p), {o}))

\* wear all: as many as find their slot free.
WearAll(p, S) ==
    /\ Turn(p) /\ S # {} /\ S \subseteq mem.inv[p]
    /\ \A o \in S : /\ wearflag[o] \notin {Nil, "wield", "held"}
                    /\ mem.ready[p][wearflag[o]] = Nil
                    /\ \A q \in S : wearflag[q] = wearflag[o] => q = o
    /\ Unsaved([Uncarry(mem, S, p) EXCEPT !.ready[p] =
           [s \in Slot |-> IF \E o \in S : wearflag[o] = s
                           THEN CHOOSE o \in S : wearflag[o] = s ELSE @[s]]])

\* remove; a worn-out cloak falls to pieces.
Remove(p, o) ==
    /\ Turn(p) /\ o \in worn(mem, p)
    /\ LET m == Unready(mem, p, {o})
       IN \/ Unsaved(add_obj_crt(m, {o}, p))
          \/ wearflag[o] \notin {"wield", "held"} /\ Unsaved(free_obj(m, {o}))

\* remove all keeps what is cursed; uninit_ply and a death by a monster do
\* the same.
RemoveAll(p, S) ==
    /\ Turn(p) /\ S # {} /\ S \subseteq worn(mem, p)
    /\ Unsaved(add_obj_crt(Unready(mem, p, S), S, p))

-----------------------------------------------------------------------------
(* From one to another: give (command8.c), steal and snatch (command5.c),  *)
(* the transport spell (magic7.c), and the gifts of monsters.              *)

\* give: the object changes hands, the giver is saved, then the receiver.
\* Nobody looks at the number of objects the receiver has.
Give(p, h, o) ==
    /\ Turn(p) /\ o \in mem.inv[p] /\ h \in (playing \cup {Mon}) \ {p}
    /\ \E m \in savegame(add_obj_crt(Uncarry(mem, {o}, p), {o}, h), p) :
          Becomes(m, {})
    /\ due' = IF h = Mon THEN Nil ELSE h
    /\ UNCHANGED <<playing, fate>>

GiveSaved ==
    /\ fate = "up" /\ due # Nil
    /\ \E m \in savegame(mem, due) : Becomes(m, {})
    /\ due' = Nil
    /\ UNCHANGED <<playing, fate>>

\* steal, from a player or a monster; transport, to a player.
Steal(p, h, o) ==
    /\ Turn(p) /\ h \in (playing \cup {Mon}) \ {p} /\ o \in mem.inv[h]
    /\ Unsaved(add_obj_crt(Uncarry(mem, {o}, h), {o}, p))

Transport(p, q, o) ==
    /\ Turn(p) /\ q \in playing \ {p} /\ o \in mem.inv[p]
    /\ Unsaved(add_obj_crt(Uncarry(mem, {o}, p), {o}, q))

\* snatch takes what is wielded or held.  The one it looks at and does not
\* mean is freed, but stays in ready[].
Snatch(p, q, o) ==
    /\ Turn(p) /\ q \in playing \ {p}
    /\ o \in {mem.ready[q]["wield"], mem.ready[q]["held"]} \ {Nil}
    /\ LET other == {mem.ready[q]["wield"]} \ {o, Nil}
           m == free_obj(mem, other)
           taken == add_obj_crt(Unready(m, q, {o}), {o}, p)
       IN \/ other = {} /\ Unsaved(taken)
          \/ other # {} /\ (Corrupt(m) \/ Corrupt(taken))

SnatchNothing(p, q) ==
    /\ Turn(p) /\ q \in playing \ {p}
    /\ LET both == {mem.ready[q]["wield"], mem.ready[q]["held"]} \ {Nil}
       IN both # {} /\ Corrupt(free_obj(mem, both))

\* buy and purchase (which look at the 80, or do not), a trade, a reward for
\* talking: a new object.
Buy(p, o) ==
    /\ Turn(p) /\ o \in mem.fresh
    /\ Unsaved(add_obj_crt(load_obj(mem, {o}), {o}, p))

\* trade: one object to the monster, and perhaps a new one for it.
Trade(p, o) ==
    /\ Turn(p) /\ o \in mem.inv[p]
    /\ LET m == add_obj_crt(Uncarry(mem, {o}, p), {o}, Mon)
       IN \/ Unsaved(m)
          \/ \E q \in mem.fresh : Unsaved(add_obj_crt(load_obj(m, {q}), {q}, p))

\* An object of the inventory is used up: sold, broken by the smith,
\* shattered by a failed repair, changed into gold.
Spend(p, o) ==
    /\ Turn(p) /\ o \in mem.inv[p]
    /\ o \in Box => mem.shots[o] = 0
    /\ Unsaved(free_obj(Uncarry(mem, {o}, p), {o}))

-----------------------------------------------------------------------------
(* study, readscroll, drink and zap (magic1.c) find the object in the      *)
(* inventory or in any slot of ready[].                                    *)

Found(p) == Scroll \cap (mem.inv[p] \cup worn(mem, p))

\* del_obj_crt would not find o.
Misfiled(p, o) == o \notin mem.carried /\ mem.ready[p][wearflag[o]] # o

Ends(p, o, m) ==
    \/ ~Misfiled(p, o) /\ Unsaved(m)
    \/ Misfiled(p, o) /\ Corrupt(m)

\* It burns and falls to the floor.
Burn(p, o) ==
    /\ Turn(p) /\ o \in Found(p)
    /\ Ends(p, o, add_obj_rom(del_obj_crt(mem, o, p), {o}))

\* It is used up.
Use(p, o) ==
    /\ Turn(p) /\ o \in Found(p)
    /\ Ends(p, o, free_obj(del_obj_crt(mem, o, p), {o}))

-----------------------------------------------------------------------------
(* Fights and deaths (combat.c, Creature.c, command6.c, command10.c).      *)

SlainStripped(m, p, T, byPlayer) ==
    LET F == IF byPlayer THEN T ELSE T \cap {m.ready[p]["wield"]}
    IN add_obj_rom(Unready(m, p, T), F)
\* die, of a player: the weapon falls down, the rest falls down when a
\* player killed him and is taken off otherwise, but for what is cursed.
Slain(m, p, T, byPlayer) ==
    LET F == IF byPlayer THEN T ELSE T \cap {m.ready[p]["wield"]}
    IN add_obj_crt(add_obj_rom(Unready(m, p, T), F), T \ F, p)

Die(p, T, byPlayer) ==
    /\ Turn(p) /\ T \subseteq worn(mem, p)
    /\ Saved(Slain(mem, p, T, byPlayer), p)

\* A scroll's spell is reflected and kills its reader; the scroll, worn until
\* then and on the floor now, is used up all the same.
ReflectedDeath(p, o, T) ==
    /\ Turn(p) /\ o \in Found(p) \cap T /\ T \subseteq worn(mem, p)
    /\ \E m \in savegame(Slain(mem, p, T, TRUE), p) :
          Corrupt(free_obj(del_obj_crt(m, o, p), {o}))

\* The weapon shatters, acid dissolves armour; fumbled or broken, it goes to
\* the inventory (RemoveAll).
Shatter(p, o) ==
    /\ Turn(p) /\ o \in worn(mem, p)
    /\ Unsaved(free_obj(Unready(mem, p, {o}), {o}))

\* lose_all: everything but what is worn and cursed.
lose_all(p, T) ==
    /\ Turn(p) /\ T \subseteq worn(mem, p)
    /\ LET S == T \cup mem.inv[p]
       IN S # {} /\ Unsaved(free_obj(Unready(Uncarry(mem, mem.inv[p], p), p, T), S))

\* A fall in the dark: an object of the inventory is dropped, or gone where
\* there is a dump or slime.
Stumble(p, o, k) ==
    /\ Turn(p) /\ o \in mem.inv[p]
    /\ LET m == Uncarry(mem, {o}, p)
       IN Saved(IF k = "plain" THEN add_obj_rom(m, {o}) ELSE Forget(m, {o}), p)

\* On the floor, unless there is slime: then in no list any more.
Spilt(m, S, k) == IF k = "slime" THEN Forget(m, S) ELSE add_obj_rom(m, S)

\* flee drops what is wielded, or else (also when that is cursed) what is held.
Flee(p, k) ==
    /\ Turn(p)
    /\ \E o \in {mem.ready[p]["wield"], mem.ready[p]["held"]} \ {Nil} :
          Saved(Spilt(Unready(mem, p, {o}), {o}, k), p)

-----------------------------------------------------------------------------
(* Monsters and rooms.                                                     *)

\* A thief of a monster takes what a player holds.
PickPocket(p) ==
    /\ Turn(p) /\ mem.ready[p]["held"] # Nil
    /\ LET o == mem.ready[p]["held"]
       IN Unsaved(add_obj_crt(Unready(mem, p, {o}), {o}, Mon))

Scavenge(o) ==
    /\ Else /\ o \in mem.floor
    /\ Unsaved(add_obj_crt(del_obj_rom(mem, {o}), {o}, Mon))

\* die, of a monster, and the one whose baggage is asked for: what it has
\* falls down, but what a trader has is forgotten with it.
MonDies(k, trader) ==
    /\ Else /\ mem.inv[Mon] # {}
    /\ LET S == mem.inv[Mon]
           m == Uncarry(mem, S, Mon)
       IN Unsaved(IF trader THEN Forget(m, S) ELSE Spilt(m, S, k))

\* A room is loaded, an action or a monster makes an object.
Appear(o) ==
    /\ Else /\ o \in mem.fresh
    /\ \E h \in {"floor", "monster"} :
          LET m == load_obj(mem, {o})
          IN Unsaved(IF h = "floor" THEN add_obj_rom(m, {o}) ELSE add_obj_crt(m, {o}, Mon))

\* A room leaves memory with what lies in it (free_rom).
RoomFreed(S) ==
    /\ Else /\ S # {} /\ S \subseteq mem.floor
    /\ Unsaved(free_obj(del_obj_rom(mem, S), S))

-----------------------------------------------------------------------------
(* Sessions.                                                               *)

SaveGame(p) == Turn(p) /\ Saved(mem, p)

\* init_ply: quest scrolls and horns (Q) are thrown away, then some of what
\* can be worn is (W), but nothing is wielded or held.
Login(p, Q, W) ==
    LET f == mem.file[p]
        mine(b) == b \in f.inv
        in == [mem EXCEPT
                 !.inside = [b \in Box |->
                                IF mine(b) THEN f.inside[b] \ Q ELSE @[b]],
                 !.shots = [b \in Box |->
                                IF mine(b) THEN Cardinality(f.inside[b] \ Q) ELSE @[b]]]
        clean == free_obj(add_obj_crt(in, f.inv \ Q, p), Q)
    IN /\ Else /\ p \notin playing
       /\ Q \subseteq Scroll \cap Kept(f)
       /\ W \subseteq f.inv \ Q
       /\ \A o \in W : /\ wearflag[o] \notin {Nil, "wield", "held"}
                       /\ \A q \in W : wearflag[q] = wearflag[o] => q = o
       /\ Becomes([Uncarry(clean, W, p) EXCEPT !.ready[p] =
              [s \in Slot |-> IF \E o \in W : wearflag[o] = s
                              THEN CHOOSE o \in W : wearflag[o] = s ELSE Nil]], {})
       /\ playing' = playing \cup {p}
       /\ UNCHANGED <<due, fate>>

QuitFitsCarried(p) == Cardinality(mem.inv[p]) <= Cap
\* quit is refused to who has more than the file takes.
QuitFits(p) == Cardinality(mem.inv[p] \cup worn(mem, p)) <= Cap

\* uninit_ply, save_ply, free_crt, after quit or without it (a hang-up, a
\* timeout): what did not fit into the file is gone.
Quit(p, asked) ==
    LET S == mem.inv[p] \cup worn(mem, p)
        m == Uncarry(Unready(mem, p, S), mem.inv[p], p)
    IN /\ Turn(p)
       /\ asked => QuitFits(p)
       /\ \E n \in savegame(mem, p) :
            LET gone == S \ n.file[p].inv
            IN Becomes([free_obj([m EXCEPT !.file = n.file], gone) EXCEPT
                  !.inside = [b \in Box |-> IF b \in S THEN {} ELSE @[b]],
                  !.shots = [b \in Box |-> IF b \in S THEN 0 ELSE @[b]]], {})
       /\ playing' = playing \ {p}
       /\ UNCHANGED <<due, fate>>

Next ==
    \/ \E p \in Player, o \in Thing :
         \/ Get(p, o) \/ Discard(p, o) \/ Wear(p, o) \/ Hold(p, o) \/ Remove(p, o)
         \/ Buy(p, o) \/ Trade(p, o) \/ Spend(p, o) \/ Burn(p, o) \/ Use(p, o) \/ Shatter(p, o)
         \/ \E k \in Kinds : Drop(p, o, k) \/ DropFull(p, o, k)
                               \/ Stumble(p, o, k)
         \/ \E b \in Box : GetFrom(p, b, o) \/ Put(p, o, b) \/ Store(p, o, b)
         \/ \E h \in Holder : Give(p, h, o) \/ Steal(p, h, o)
         \/ \E q \in Player : Transport(p, q, o) \/ Snatch(p, q, o)
         \/ \E T \in SUBSET worn(mem, p) : ReflectedDeath(p, o, T)
    \/ \E p \in Player, S \in SUBSET Thing :
         \/ get_all_rom(p, S) \/ WearAll(p, S) \/ RemoveAll(p, S) \/ lose_all(p, S)
         \/ \E b \in Box : get_all_obj(p, b, S) \/ drop_all_obj(p, S, b)
         \/ \E k \in Kinds : drop_all_rom(p, S, k)
         \/ \E byPlayer \in BOOLEAN : Die(p, S, byPlayer)
         \/ \E Q \in SUBSET Scroll : Login(p, Q, S)
    \/ \E p \in Player : PickPocket(p) \/ SaveGame(p)
                          \/ \E asked \in BOOLEAN : Quit(p, asked)
    \/ \E p \in Player, q \in Player : SnatchNothing(p, q)
    \/ \E p \in Player, k \in Kinds : Flee(p, k)
    \/ GiveSaved
    \/ \E o \in Thing : Scavenge(o) \/ Appear(o)
    \/ \E k \in Kinds, trader \in BOOLEAN : MonDies(k, trader)
    \/ \E S \in SUBSET mem.floor : RoomFreed(S)

Spec == Init /\ [][Next]_vars

-----------------------------------------------------------------------------
(* Properties.                                                             *)

\* The lists a thing is in; the file of a player who is away counts as one.
Places(o) ==
    {<<h, "inv">> : h \in {h \in Holder : o \in mem.inv[h]}}
    \cup {at \in Player \X Slot : mem.ready[at[1]][at[2]] = o}
    \cup {<<b, "inside">> : b \in {b \in Box : o \in mem.inside[b]}}
    \cup {<<p, "file">> : p \in {p \in Player \ playing : o \in Kept(mem.file[p])}}
    \cup {<<"room", "floor">> : f \in {f \in {o} : f \in mem.floor}}

Nowhere == mem.fresh \cup mem.freed \cup mem.lost

\* No sequence of handlers puts a thing into two lists at once, or leaves in
\* a list what was freed: every handler takes it out before it puts it in.
OnePlace ==
    /\ TypeOK
    /\ fate = "up" =>
        \A o \in Thing : /\ Cardinality(Places(o)) <= 1
                         /\ o \in Nowhere => Places(o) = {}

\* parent_crt tells the truth: it is set for what is in an inventory, and for
\* nothing else, so del_obj_crt looks where the thing is.
ParentSound ==
    fate = "up" => mem.carried = UNION {mem.inv[h] : h \in Holder}

\* shotscur of a container, which discard, drop and sell trust, is the number
\* of things in it.
BoxCount ==
    fate = "up" => \A b \in Box : mem.shots[b] = Cardinality(mem.inside[b])

\* Only the handlers that are known to do so leave a thing in no list without
\* freeing it.
NoLeak == fate = "up" => \A o \in Thing \ Nowhere : Places(o) # {}

\* What a player gave away, dropped, put into something or lost by a handler
\* that saves is not in his file any more: a crash brings nothing back, and
\* no thing is in two files, but by the handlers that do not save.
FilesFollow ==
    fate = "up" => \A p \in playing :
        Kept(mem.file[p]) \subseteq has(mem, p) \cup mem.loose[p] \cup mem.freed

\* Who asks to leave takes everything into his file: the quit command, unlike
\* a hang-up, loses nothing, whatever gave him more than 80 objects.
QuitKeepsAll ==
    [][ \A p \in playing \ playing' :
          (due = Nil /\ Quit(p, TRUE)) => Kept(mem'.file[p]) = has(mem, p) ]_vars

=============================================================================
