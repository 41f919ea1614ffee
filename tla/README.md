# A verification project for Mordor, the multi-user dungeon in `src/src`

TLA+ modules of the game server, TLC configurations that check them on small
instances, and TLAPS proofs of the results that matter most.  Everything is
translated from the C sources in `src/src/*.c`; line numbers for every
definition are in `PROJECT.json` under `map`.

## 1. The system

One process, `main.c`, one thread, no locks.  `sock_loop` (io.c) calls
`io_check` (accept new sockets, read ready ones), `handle_commands` (run one
command of every socket that has a full line) and `update_game` (periodic
work by timers: idle players 20 s, random monsters 13 s, the active monsters
every second, shutdown 30 s) for ever.  A handler runs to its end before
another starts, so the unit of interleaving is a handler; what makes the
system hard is that handlers call each other (`disconnect` promotes a waiter,
whose `init_connect` may `disconnect`), walk lists other handlers of the same
walk change, keep raw pointers to what other handlers free, and write several
files one after the other with nothing to undo them.

| component | code | state | operations | what makes it correct |
|---|---|---|---|---|
| connections, slots, queue | io.c | `Ply[].io`, `Numplayers`, `First_wait`, `Numwaiting`, the snapshot of `io_check` | accept, init_connect, disconnect, add/remove_wait | the counters are exact, no slot is lost, nobody is overtaken, a closed socket is not served |
| login and sessions | command1.c, io.c, dm5.c | `io->fn`, `fnparam`, `Ply[].ply` | login, create_ply, suicide, dust, disconnect | one session a character, the newest copy is played |
| player files | files2.c, files1.c, command8.c | `player/name` | save_ply, load_ply, savegame, save_all_ply | a save is never undone |
| room cache | files2.c | `Rom[]`, the LRU queue, `Rsize` | load, evict, reload, resave | occupied rooms stay, evictions are saved, pointers to rooms live |
| prototype caches | files2.c | `Crt[]`, `Obj[]` | load_crt, load_obj, flush | as the room cache |
| socket buffers | io.c | input and output rings | accept_input, output_buf, handle_commands | bytes stay in order, overflow is noticed |
| room contents and movement | room.c, command1/6.c | lists of players, monsters, exits, traps | go, move, open, lock, traps | a creature is in one room |
| things | object.c, command2-10.c, magic1.c, player.c, room.c | inventories, `ready[]`, containers, floors | get, drop, wear, give, steal, use, die | an object is in one place, files follow |
| gold, shops, bank | bank.c, command7-9.c | `gold`, accounts | deposit, withdraw, transfer, buy, sell | gold is neither made nor lost |
| mail | post.c, command1.c | `post/name` | postsend, postread, postdelete | a message reaches whom it names |
| followers | command6.c, Creature.c, dm6/7.c | `following`, `first_fol` | follow, lose, possess | the two directions agree |
| monsters | update.c, Creature.c, room.c | `first_active`, `first_mon`, enemy lists | update_active, add/del_active, die | who is seen acts, who is freed does not |
| fights, spells, effects | combat.c, magic*.c, player.c | hit points, timers, flags | attack, cast, update_ply | a bonus is undone once |
| dungeon masters | dm1-8.c | everything | `*` commands | what they free is unlinked |
| talk, screens, lookup, logs | talk.c, whispers.c, ... | text | | not a matter of state |

`src/src/Storage` is an old copy of the server, `src/src/AddFiles` vendored
headers, `src/util`, `src/lib`, `src/storage` offline tools; the remaining
directories are data.  `PROJECT.json` lists every component with its status
and, under `hazards`, what in this code is hard to test, line by line.

## 2. Modules

| module | models | extends |
|---|---|---|
| `Admission` | connections, slots, waiting queue | |
| `Slots` | abstract: a line of people and a bounded number of seats | |
| `Accounts` | characters: sessions, copies and files | |
| `RoomCache` | rooms in memory, the pointers of players to rooms | |
| `Lru` | abstract: a cache that drops the least recently used idle entry | |
| `Things` | where every object is, in memory and in files | |
| `Active` | the list of active monsters and the pass of `update_active` over it | |
| `Effects` | timed effects, levels and deaths, and the attributes they change | |
| `Party` | who follows whom, groups that move, possessed monsters | |
| `Wire` | the input ring of a socket and its count of lines | |
| `Save` | the steps inside a save, failures of the disk and crashes between them | |
| `Purse` | gold of players, monsters, floors and the bank, and what the files say of it | |
| `MCRoomCache`, `MCThings`, `MCActive`, `MCEffects`, `MCParty`, `MCPurse` | instances and symmetry | |
| `AdmissionProofs`, `ThingsProofs`, `EffectsProofs`, `PartyProofs`, `WireProofs`, `PurseProofs` | theorems | the component |
| `StorageProofs` | theorems | `Save`, `RoomCache` |
| `PresenceProofs` | theorems | `Accounts`, `Active` |

### Admission

`fn[fd]` is `Ply[fd].io` (null: "closed") and what its function pointer is;
`counted` the sockets whose `intrpt` has bit 2; `wq` the list `First_wait`;
`ready` what is left of the snapshot of `io_check`.  `Poll` is `select`; the
`Accept*` actions are `accept_connect` up to its four ends; `ServeInput` is
`accept_input` on a live socket, `ServeClosed` on one that an earlier handler
of the same scan has closed; `EndSession` is any handler that disconnects a
player between scans.  `disconnect` is an operator on intermediate values of
the state, because the code recurses: it offers the slot to the head of the
queue, who may be from a locked-out site, so that `init_connect` calls
`disconnect`, which offers the slot to the next.  `OfferTo(.., k)` is that
recursion with `k - 1` refusals.

The probe of `remove_wait` (io.c:1032) is a write to a non-blocking socket
(io.c:188), and any -1 counts as a lost peer, also `EAGAIN` on a full send
buffer: `ProbeFails` may happen to every waiter, gone or not.  He is then in
no queue, his socket stays open, and `update_users` spares him because he is
"waiting".  `Limbo` is the set of these waiters.  One that is gone is read and
closed by the next scan, which offers the slot again; one that lives is never
admitted.

Left out: the lock-out list is a choice; a signed `commands` counter that
reaches -1 after 255 unread lines.
`AcceptFatal` is the failing `accept` (io.c:185) after which `pid`
(io.c:172, read at io.c:210) is uninitialised.

### Accounts

A character is a file and one copy per socket.  A copy is a version number
that grows with every change of a played copy; `live` is `ply->fd > -1`.
`stage` is the state of the login dialogue.  `twice` and `born` are history:
two people can create the same new name at once and both play it (a hazard
the properties have to except).  `Saves(S, f)` is a loop over `Ply[]` that
saves: the last copy in socket order stays.  Undefined behaviour (a null name
in `suicide`, a freed copy in `login` when the file has gone) is a choice
between going on and dying.  `save_ply` and `load_ply` are whole steps here;
their inside is `Save`.

### RoomCache

A tag is named by its room; `cache` is a record of `Rom[]`, head, tail,
`next`, `prev`, `Rsize` and what each file has ("current", "stale", "moved":
the contents are in the `~` file only).  `load_rom` returns a set of outcomes:
the cache after it, the pointer it stored and its return value, for each way
the disk can fail.  A pointer to a freed room becomes `Freed`.  Callers:
`init_ply` (two loads in one handler: `Login`, then `LoginStart`; `login` keeps
what `rom_ptr` holds between them, which is where the player goes when room 1
cannot be loaded), movement,
visits without entering, `teleport home`, quitting, resaving, reloading.

An eviction takes its tag from the queue before it opens the file; when the
file cannot be opened or written, the room stays in memory and in no queue.
`out` remembers these rooms.  The next `load_rom` of such a room calls
`front_queue` (files2.c:54) for a tag whose links are those of an old queue,
and leaves `Rsize` as it is although the queue gains a tag: links and `Rsize`
no longer agree, a later eviction may free the room that was just loaded, and
the loop may never end.
`torn` remembers that this has happened.  The call itself is a step of the
model; the calls of `load_rom` after it are not, and what the properties say
of the queue they say until then.  `Abstract` is the queue as `Lru` sees it:
the rooms from `Romhead` on, and as busy the rooms with players but those of
`out`, whose players `teleport home` may have brought there without a load.

Left out: reading a truncated file; what a freed tag's memory is used for
next (a use after free is only recorded, and a `Crash` is possible at any
time).

### Things

`mem` records every list an object can be in: `inv`, `ready`, `inside`,
`floor`, the files, and the fields that describe them redundantly
(`shotscur` of containers as `shots`, `parent_crt` as `carried`).  There is an
action for every handler that moves, saves or frees an object: the commands
of command2.c to command5.c, command8.c, command9.c and command10.c, reading
and using in magic1.c, deaths and fumbles in combat.c and Creature.c, thieves
and scavengers of update.c, saving, login and quitting.  Three histories
separate what is known from what would be news: `fresh` and `freed`, `lost`
(the few handlers that forget an object: slime floors, a trader's death, the
items thrown away at login) and `loose` (an object whose last transfer was
not saved).  `fate = "corrupt"` ends a behaviour in which a handler freed an
object that is still linked: what follows is undefined.  `due` is the second
half of `give`, which saves the giver, then the receiver.

Left out: heaps of gold (in `Purse`), charges, weights; whether an object is cursed or heavy
is a choice.  Everybody is in one room, which only adds behaviours.  The
order in an inventory matters only for which objects fit the file, and any
subset of that size may be saved.  There is no crash action: `FilesFollow`
speaks about the files in every state, which is what a crash leaves.

### Active

`active` is the list `first_active`, a tag named by its monster; `cp` the
cursor of `update_active`; `acted` the monsters whose `LT_ATTCK` lies ahead.
`where` and `at` say which room a monster and a player are in.  A monster is a
number, in the order of names by which a room lists it (`first_mon`); whoever
is activated goes to the front of `active` (`Descending`).  The helpers of
room.c, files1.c and update.c (`add_crt_rom`, `add_ply_rom`, `del_ply_rom`,
`add_permcrt_rom`, `free_crt`, `free_rom`, `add_active`, `del_active`) are
operators on intermediate states, and a handler is a composition of them in
the order of its calls.  Commands, arrivals, deaths and loads of rooms happen
between passes; a step of `Pass` is the turn of one monster, with everything
it sets off: a death and Limbo, a player who flees into a trap whose alarm
calls the guards of another room, a teleport.  Dice and flags decide in the
code, here each outcome is possible.  `Loaded` is an eviction by `load_rom`,
in the same step and before the player moves, as in the code.

`Freed` is a pointer to a tag that `del_active` has freed.  What is read there
is undefined: `AnyTag` lets the pass end or go on at any tag, and the process
may crash at any time.  `torpid` is history: `dm_add_crt` (clay forms) and
`reload_rom` put monsters before players without `add_active`, and
`SeenIsActive` excepts them.

Left out: `update_action`, which walks the same list for robots; the two stale
reads of `update_active` before its cursor test, which need a null
`parent_rom`.  `Move` allows more than the code: any monster may follow, and
any may be the one a dungeon master possesses.

### Effects

`on[p]` are the flags of a player, `over[p]` the timers that have run out,
`rested[p]` those after which a second attempt is allowed, `attr[p]` the
attributes as a difference from creation.  `Gain` and `Lose` are what a flag
goes with; `update_ply` is a composition of `Lapse` in the order of the tests
of the code, and everything that calls it (`update_users`, score, health,
login, quit) is `update_users` or `Shown`.  `haste`, `pray` and `berserk` are
attempts that may fail; `super_strength` is a spell, a potion or a wand, on
oneself or another.  `up_level` and `down_level` take an attribute from
`level_cycle`, and training, `dm_advance` and death are paths of them.

`spoilt` is history.  Where the code leaves flag and bonus apart (`dispel`,
the second test of the daily limit in `super_strength`, the death of a
berserker) the attribute concerned is exempt from `Balanced` for that player
from then on, so that the invariant speaks of everything else.

Left out: effects that are only a flag; hit points and magic points; what is
computed from attributes (`thaco`, agility); the dungeon masters' `set`.

### Party

`following` and `first_fol` are the two directions; `alias_crt`, with
`PALIAS`, and `MDMFOL` are the two directions of possession.  `walk` is the
stack of the calls of `move`, which calls itself for every follower in the
old room, so that a group moves in many steps and its list is read between
them; `old_rom` and `new_rom` are the same for all of them.  A null pointer
that is read ends the story ("crashed"), a list that names a freed monster
too ("wild").  Each way a monster ends has its own action because each
unlinks differently: `die`, `bribe`, `free_rom`, `dm_purge`, `dm_save_crt`.

Left out: doors, levels and full rooms, which only decide whether somebody may
go; other commands between the steps of a walk, because a handler runs to its
end.  `MaxTags` bounds the tags that `lose` and `dm_save_crt` leave behind.

### Wire

One socket, from its accept to its close and the next accept.  `input`,
`ihead`, `itail` and `commands` are the fields of `iobuf`; `commands` counts
modulo `CharSize` and `CharSize - 1` is -1.  `text` is history: what the
server has still to handle, kept as a sequence, with no ring.  `slips`
records the four ways in which the code loses count.  `pc` is the order of
`sock_loop`: `accept_input`, `output_buf`, `handle_commands`, `update_game`.
A `%` is stored twice, and a backspace takes both.

Left out: what the output ring loses; characters below 32.

### Save

A file is a version and whether it is whole; `bak` is the file with `~`.
`job` is the save that is under way: `rename`, `open`, `write`, `unlink`, each
a step that may fail as the code looks at failures, with a crash between any
two.  `inplace` is `resave_all_rom`, which writes over the file.  `hurt` is
history: what went wrong with a file since its last good save, of the five
kinds that the code does not repair.  `CopyKept` and `ReadsSaved` say what is
left in each case.

Left out: what is in a file; the compression; the reading of a part of a room.

### Purse

`gold`, `bal`, `floor` and the flags `loan` (PLOANB) and `used` (PLOANU) are
the state in memory, `file` what each player's file says, `todo` the saves
that the handler under way has still to make: the game may crash between two
of them.  A handler is one action that changes the purses and gives the order
of its saves.  Prices, sums and who carries what are choices; fees and limits
are constants.  `unsaved` is history: players whose file still has gold that
they no longer have, because the handler that took it saves nobody.
`Makes`, `Uses` and `Moves` divide the handlers into those that may add gold,
those that may take it away and those that may do neither.

Left out: what is bought and sold (in `Things`); the order in which `Crash`
reloads; who stands in the room, so that gold may be given across rooms.

## 3. Runs

| run | distinct states | result |
|---|---|---|
| `admission` | 733,437 (depth 35) | counters exact, queue sound, no slot lost, order kept, implements `Slots`, a free slot is taken unless a live waiter in limbo holds it |
| `admission_lockout` | violated at depth 8 | a promoted waiter that is locked out is closed while the snapshot still has it |
| `accounts` | 336,434 (depth 40) | one login a character, the played copy is the newest, a login loses nothing, only a password prompt sets a file back |
| `roomcache` | 804,551 (depth 17) | queue sound, rooms with players stay, evictions are saved, implements `Lru` |
| `roomcache_home` | violated at depth 4 | `home_rom` outlives the room |
| `things` | 117,651 | an object is in one list, none leaks, containers count, files follow, quitting loses nothing |
| `active` | 170,604 (depth 10) | who is on the list is alive and in a room, who is seen is on it, every pass ends |
| `effects` | 207,360 | a bonus is taken back once, is not put off by another, and ends |
| `party` | 167,522 | following and the lists agree, a group takes nobody along twice, a monster has one possessor |
| `wire` | 1,267,145 | the ring holds the text, a command is a line, no line is left uncounted |
| `save` | 1,990,172 (depth 52) | what was saved is kept, a save that reports failure changes nothing |
| `purse` | 236,212 (depth 36) | debts are flagged, gold is conserved, a crash doubles none |

Bounds, and why they are enough.

- `admission`: five sockets and `MaxPlayers = 1` give a player, a queue of two
  (the code admits `Numwaiting <= MAXPLAYERS`), one socket that is refused and
  one whose probe failed, so that a nested `disconnect` can refuse, drop and
  promote in one step; several waiters, of whom some live, may be in limbo at
  the same time; `Tablesize = 4` makes the full table reachable.
  `admission_lockout` uses four sockets and a table that is never full.
- `accounts`: three sockets are a player, a second login and a dungeon master;
  two names are needed for a transfer; two versions tell older from newer.
- `roomcache`: `RQMAX = 3` with four rooms evicts; it takes a fifth to evict
  again after an eviction has failed, and to find what a torn queue does.  Two
  players leave one evictable room (the assumption `Cardinality(Player) < RQMAX` is 50 < 800 in
  the code); one failure of the disk.  Symmetry permutes players and ordinary
  rooms; the run checks safety only.
- `things`: two players, a monster and one object of each kind that the
  handlers treat differently: a scroll that can be wielded (the game has three:
  blood-red, ice-covered, striped), a ring, a bag that is held.  `Cap = 2` in
  place of the 80 objects a file takes, so that three do not fit.  Deadlock
  is off because a corrupt story ends.
- `active`: three monsters give a list with a head, a middle and an end to
  remove under the cursor; a freed monster does not come back (each is loaded
  once), which bounds the story and not the list.  Three rooms are one that is
  left, one that is entered (or is Limbo) and one that is evicted meanwhile;
  two players tell leaving from leaving empty.
- `effects`: a caretaker may haste, pray and go berserk and so meets the
  shared timer; the cleric has levels to lose, and a cycle.  `BerserkLevel` is
  1 and two levels are enough for a death that loses one.  `MaxSpoilt = 2`
  lets two attributes go wrong, of one player or of two (the death of a
  berserker takes another's dexterity), after which the others must still be
  right.
- `party`: three players make a ring of followers, which is the shortest the
  code admits (`follow` refuses only who follows him already); two dungeon
  masters compete for one monster; two rooms are old and new.  Deadlock is off
  because a story ends where the server crashes.
- `wire`: five cells hold four characters, so that a doubled `%` is torn by
  the end of the array and by an overflow; `CharSize = 4` makes -1 three
  lines, which the ring can hold.  Reads of two characters have a CR and a LF,
  or a `%` and a backspace, in one read and in two.
- `save`: saves of different files do not overlap and share nothing, so one
  file of each kind is enough; three versions tell the file, its copy and the
  memory apart.
- `purse`: three pieces of gold are a sum, its fee and a remainder; two players
  and a monster are giver, receiver and third; two heaps are needed to take
  all.  A crash is not explored from files that hold more than `MaxGold`
  together.

Fairness.  `admission`: `WF(Poll)` and `WF(Scan)`.  `sock_loop` calls
`io_check` in an endless loop and neither blocks: sockets are non-blocking
and `select` has a timeout.  Nothing is assumed of the peers.  `active`:
`WF(StartPass)` and `PassGoesOn`, which is `WF(Pass)` written without ENABLED:
`update_game` runs in the same loop, starts a pass every second, and a pass
waits for nothing.

`effects`: a timer runs out, and `update_users` serves every player but the
dungeon masters; `FairSpec` says so by the states to which these steps lead,
without ENABLED.  `update_game` calls `update_users` every 20 seconds and
waits for nobody.

A violation run states what a comment or a help page says of the program and
shows a behaviour of the code that breaks it; the two findings in
`PROJECT.json` quote the line.  Other places where code and words disagree
were met while modelling.  They are in the models, as steps, exceptions or
histories, without a run of their own:

- io.c:1028, `remove_wait`: "write is being used here to check to see if the
  given file desc. is still valid", but -1 also stands for a full send buffer,
  and `disconnect` probes one waiter only.  A live waiter then loses his place
  without being let in; those behind him wait beside a free slot until the
  next disconnect, and a newcomer may take it (`Limbo` in `Admission`, which
  `SlotOffered` excepts).
- io.c:389, `handle_commands`: a backspace may rub out a newline that has been
  counted, so that text without a newline is handed over as a line; the
  comment before `handle_commands` speaks of the first command (`slips`).
- files2.c:354, `save_all_ply`: it also writes copies that were loaded for a
  password prompt, and progress saved before is lost; help.52 says that a
  crash loses progress since the last save (`OnlyPromptSetsBack`).
- files2.c:602: a crash between the rename and the end of the write leaves the
  character in the `~` file only, which nothing reads (`hurt`).
- files2.c:127: an eviction that cannot open its file leaves the room in no
  queue, so that `resave_all_rom`, for "all memory-resident rooms"
  (files2.c:296), passes it by (`RoomCache`, `out`); and `front_queue`, which
  "removes the queue tag pointed to by the first parameter from the queue"
  (files2.c:760), is called at files2.c:54 for a tag that is in none
  (`RoomCache`, `torn`).
- player.c:1526: `del_obj_crt` clears the slot of the object's kind, not the
  slot it is in: a scroll that can be wielded, held and read is freed in
  `ready[]` (`Things`, `fate = "corrupt"`).
- update.c:493: a monster's teleport may free the tag `cp` points to; the
  comment at update.c:261 says "Often a crash site.  Don't know why"
  (`Active`, `Freed`).
- dm1.c:213 (a comparison where an assignment is meant), dm7.c:114,
  command9.c:88 and 116, Creature.c:338: ways for a possessed monster to end
  that leave it in a list or read a null leader; files1.c:757-764 assumes
  there is none (`Party`, `server`).
- command6.c:434: the alias of a dungeon master who was summoned is looked for
  in the room he is in, not in its own (`Party`, `AliasAt`).
- magic9.c:1812, magic9.c:337, Creature.c:503: flag and bonus part
  (`Effects`, `spoilt`).
- command10.c:462: training refuses what costs more than the balance, and the
  balance of a debtor is negative, so a loan can never be used, although
  bank.c:395 says "You may use up to $%ld for training."; the fee of a
  transfer is 5% in the code and "2%" and $50 in help.92; repaying a loan is
  not saved (bank.c:193-211).  All three are as in the code in `Purse`.

## 4. Proofs

All theorems hold for every value of the constants under the assumption
named in the component's module, which TLC evaluates in that component's run.
What each theorem states is listed in `PROJECT.json` under `theorems`.

| component | invariants proved | steps proved |
|---|---|---|
| Admission | `TypeOK`, `SlotCountExact`, `QueueSound`, `SlotDebt` | `QueueFair`, `ImplementsSlots` |
| Accounts | `TypeOK`, `PlayedIsNewest`, `OneLoginPerName` | `LoginKeepsProgress`, `OnlyPromptSetsBack` |
| Things | `OnePlace`, `ParentSound`, `BoxCount`, `NoLeak`, `FilesFollow` | `QuitKeepsAll` |
| Active | `ActiveSound`, `SeenIsActive` | `PassDescends`, `FreedByTeleport` |
| Effects | `Balanced` | `NotPutOff` |
| Party | `FollowAgrees`, `WalkOnce`, `OnePossessor` | |
| Wire | `RingHoldsText`, `OneCommandPerLine`, `NoLineStuck` | |
| Save | `CopyKept`, `ReadsSaved` | |
| RoomCache | `QueueSound`, `EvictedSaved` | `PresentLoaded`, `ImplementsLru` |
| Purse | `DebtIsFlagged`, `CrashMakesNone` | `GoldConserved` |

`AdmissionProofs`.  `SlotCountExact`, `QueueSound` and `TypeOK` are not inductive one by one: a counter is exact only because a
socket is queued once, and only while it waits.  `IInv` is their conjunction
in the form `Sound(q, w, n, f, c)`, a predicate on *intermediate* values,
because `disconnect` passes such values to `OfferSlot`.  `OfferSlotSound` is
the heart: whatever sound values it starts from and however many waiters it
refuses, the outcome is sound.  `DisconnectSound` follows, then each action.
`SlotDebt` is proved on top: `OfferSlotDebt` shows that offering settles a
debt of one more slot, which is what `disconnect` adds.  `SlotsImplemented`
and `NobodyOvertakes` look at the same outcomes: `OfferTo` takes a prefix off
the queue and seats the last of it or nobody, which is one step of `Slots` and
leaves the order of the rest as it was.

`PresenceProofs`, sessions.  `PlayedIsNewest` is not inductive: a copy behind a password
prompt is saved by `save_all_ply`, so it must be known to be no newer than the
played copy; and a second played copy would save itself.  `IInv` is `TypeOK`,
`Identified` (a copy past the name has one) and, for every name outside
`twice`, `Newest`: the played copy is one and as new as every other copy and
the file.  `OneLoginAlways` rests on `PlayedAfter`.  The two action properties
need besides that whoever plays is at a stage that plays and has a file; then
each handler that saves is looked at on its own.

`PresenceProofs`, monsters.  A handler of `Active` changes the state several
times and reads in between what it has changed, so the invariant is a
predicate on the states that handlers pass on.  `Right(s, T)` is `Listed(s)`
(what is on the list is in a room, and is on it once) and `Seen(s, T)` (who is
in a room with players is on the list or in `T`).  Neither part holds on its
own through a handler: who is freed must be taken off the list before he is
nowhere, and `del_ply_rom` delists only when the last player has gone.  `T` is
`torpid` and, within a handler, whom it is about to add.  There is a lemma for
each function of the code that changes a state (`FreedRight`, `AddCrtRight`,
`AddPlyRight`, `DelPlyRight`, `RoomsRight` for an eviction, `AlarmRight`,
`TrapsRight`), and a handler chains them in the order of its calls.  Every
outcome of a fight is `DecidedRight`, from a state in which the monster may
have been driven off already (`DrivenRight`).  `ActiveInv` adds that the
cursor is at a tag of the list unless that has been freed: the monster whose
turn it is can then be looked up (`CursorIs`).  That `add_active` lists
nobody twice rests on `DescendingIs`, that `del_active` leaves nobody on the
list on `UnlistedKeeps`; both are inductions on what is added or gone through.
Two theorems are about steps.  `PassDescends` is the safety half of
`PassEnds`, for any number of monsters: in a pass, each step ends it, lets one
more monster have acted, or leaves `acted` alone and leaves a freed tag,
shortens the list or goes one tag further; in this order of precedence that
can be repeated finitely often only.  `FreedByTeleport` answers the comment at
update.c:261: a turn leaves the cursor in a freed tag if its monster teleports
a player away, and in no other way; after a death or a decided fight the code
goes back to the top of the list, and a monster that flees or wanders keeps
its tag.

`ThingsProofs`.  `OnePlace` counts lists and is not inductive: in the middle
of a handler a thing is in none.  `Sound(m, P, H)` is what holds there: there
are functions `k`, `w`, `s` that give every thing its kind of place, its owner
and its slot (`PlacedAt`), every list names exactly the things that are
placed in it, the things of `H` are in the handler's hands, containers count
their contents and the files are sound.  There is a lemma for each of the
calls `add_obj_crt`, `del_obj_crt`, `add_obj_rom` and so on, in which a thing
goes from a place to the hands or back; a handler is a chain of them that
begins and ends with empty hands.  Where the code frees something that is
still linked, `fate` is "corrupt" and the properties say nothing any more; the
proof of each handler that frees shows that otherwise nothing was linked.
`FilesFollow` is proved along the same lines: `Follows` is that a file of a
player who plays holds only what he has, what is freed or what is `loose`, and every handler that takes something saves who lost it or
makes it `loose`.

`EffectsProofs`.  `NotPutOff` needs no invariant but that everybody has
timers: `SetStep` says that a timer may be set when no effect that uses it
lasts, and every handler that sets one makes sure of that.  `Balanced` is
inductive as `Due` of each player's record.  What the levels gave is the size
of the set of levels at which the cycle gives that attribute, so `up_level`
adds an element and `down_level` removes one; `LevelPath`, a recursive
function of the number of levels, is taken by induction.

`PartyProofs`.  `FollowAgrees` counts in `first_fol`; the proof says `Once`
and `Never` instead, and how `Without` and prepending change that.
`WalkOnce` rests on `Walking`: whoever's `move` is under way is in the new
room already, and a follower is taken only from the old one, so that a ring
of followers ends.  `OnePossessor` rests on `Possessed`: a possessed monster
is in a room, follows its possessor if anybody, and nobody else has it as an
alias; each way of ending a monster clears this in its own way, or the server
is no longer "up".

`WireProofs`.  `Holds` says that the cells from tail to head are the text,
`Whole` that each `%` in it is doubled.  `Put` of two cells in a ring that is
nearly full, and `Erase` of two across the end of the array, are where this
could go wrong; `Wrap` and `SlotValue` replace `%` by a case distinction.
`Whole` is what `Erase` needs in order to take exactly one character, and is
lost only by "torn".  `accept_input` handles the characters of a read one by
one, so `AcceptedSound` is proved by induction on their number.

`StorageProofs`, files.  Neither `CopyKept` nor `ReadsSaved` is inductive: a copy may be
old, as after a save in place, and it is only the order of rename, open, write
and unlink that makes it new when it is needed.  `IInv` has four parts for
each file: `Under` (what each step of a save finds on the disk), `Newer` (what
is still used is not older than what was saved), `Kept` and `Reads`.
`OneAtATime` settles the files that are not being saved; then there is a lemma
for each step, failure included, and one for the crash.

`StorageProofs`, rooms.  `Linked(c, q, L)` says that the links of a cache are
the sequence `q` of `L` different rooms, read with `next` from the head and
with `prev` from the tail; `QueueIs` adds that these are the rooms in memory
but those of `out`.  There is a lemma for each function of the queue, on what
it does to that sequence: `PutLinked`, `PullLinked`, `UnlinkedLinked` for the
first half of `front_queue`, `FrontLinked` for the whole.  The loop of
`load_rom` rotates the queue (`RotatedLinked`, by induction on the number of
turns); that it ends is `SomeUnoccupied`, a matter of counting: behind the
room just loaded there are `RQMAX` others, more than there are players, so one
of them is empty.  `VictimLinked` and
`EvictedLinked` are the queue after that.  `RoomInv` is inductive: while it is not torn the
queue is such a sequence, rooms people are in, call home or are about to enter
in an unfinished login are in memory, and
what is not in memory is not "stale".  `PresentLoaded` is
proved with it, also for the call that tears the queue.  For `QueueSound` it
remains to show that `Forward` and `Backward`, which follow the links, meet
the sequence (`WalkIs`); for `ImplementsLru`, that what the lemmas say of the
sequence is what `Lru` says of its queue (`TouchedSequence`, `AddedSequence`,
`DroppedSequence`), one case for each outcome of `load_rom`.

`PurseProofs`.  `DebtIsFlagged` is inductive beside the types of what the bank
keeps.  The lemmas on the handlers of the bank say why the flag is right after
each; all others leave balances alone.  Gold is a sum over any number of
purses: the first lemmas show that the recursive function behind the sum
exists, does not depend on the order and changes as one of its terms does.
Every handler is then `Equal` (it moves gold), `Mild` (it may use it up) or one
of `Makes`.  For `CrashMakesNone`, `Covered` says of each player who is not
`unsaved` that his file has no more than he has, unless he is the next to be
saved.  He is excepted only after a handler that moved gold and changed no
sum (`Settled`), so that the two sums compare as before it.

Recursive functions and induction.  The library's induction theorems take an
operator as a parameter, which the provers used here cannot instantiate.
Where an induction is needed (levels, sums, the characters of a read, the
tags of a list), the proof takes the set of counterexamples and its least
element (`WFMin`), or a finite set whose size falls, and recursive definitions are
functions, whose existence is proved once.

Only model-checked:

- liveness (`SlotOffered`, `PassEnds`, `EffectsEnd`) and all that speaks of
  ENABLED: out of the prover's reach (`PassDescends` is what is proved of
  `PassEnds`);
- the two properties that the code violates.

## 5. Plan

Done, in this order: Admission with Slots, Accounts, RoomCache with Lru,
Things, Active, Effects, Party, Wire, Save, Purse; then theorems, so that
every safety property that a run finds to hold is proved.  To come:

1. The prototype caches, on the functions of the room cache, with creatures
   and objects that are copied out of an entry.
2. Enemy lists of monsters, which outlive the players they name.

### Not modelled

- Prototype caches (`load_crt`, `load_obj`): the same queue functions as the
  room cache, without users that keep an entry in memory.
- Mail, talk, screens, lookup, logs: text and files of text.
- Hit points, enemy lists and the odds of a fight: dice; what a fight does to
  objects, gold, followers, effects and rooms is in the other modules.
- Output that is lost when the ring is full or a write is short: no state of
  the game depends on it.
- The editors of the dungeon masters: one field of one record per command.
- Charms, robots (`logic.c`, `update_action`), idle timers, the countdown of
  a shutdown.
- `src/src/Storage`, `src/util`, `src/lib`: an old copy and offline tools.

## 6. Running

In this directory: `tlc -config admission.cfg Admission`, likewise the
others (the module of each run is in `PROJECT.json`), and `tlapm` on each of
the eight modules `*Proofs.tla`.
