---------------------------- MODULE Rooms_proofs ----------------------------
(***************************************************************************)
(* Proofs about Rooms, for any number of threads, rows and failures: the   *)
(* tables keep their references although every look-up may be out of date, *)
(* every message and room is told once, edits neither revive a row nor     *)
(* touch a field they do not name, and matching is by rank.                *)
(***************************************************************************)
EXTENDS Rooms, FiniteSetTheorems, SequenceTheorems, WellFoundedInduction, TLAPS

USE RoomsAssumption

Shaped(T) ==
  T = [lore |-> T.lore, character |-> T.character, room |-> T.room,
       participant |-> T.participant, message |-> T.message]

Kind ==
  {"lore.create", "lore.update", "lore.delete", "character.create",
   "character.update", "character.delete", "room.create", "room.archive",
   "message.send", "participant.add", "participant.remove"}

\* What of a look-up is still true when the handler writes or tells: an id is
\* not given out again, a room is not removed, and a new room has no rival.
Held(o) ==
  \/ o = Idle
  \/ o.step = "announce" /\ o.row \in News \cup ({"lore.create"} \X used)
  \/ /\ o.step = "write" /\ o.kind \in Kind
     /\ o.id \in LoreId \cup CharId \cup RoomId
     /\ o.kind \in {"lore.create", "lore.update", "lore.delete"} =>
           o.id \in LoreId \cap used
     /\ o.kind \in {"character.create", "character.update", "character.delete"} =>
           o.id \in CharId \cap used
     /\ o.kind = "room.create" => o.id \in (RoomId \cap used) \ DOMAIN db.room
     /\ o.kind \in {"room.archive", "message.send", "participant.add"} =>
           o.id \in DOMAIN db.room
     /\ o.kind = "participant.add" => o.character \in CharId
     /\ o.kind = "lore.update" => o.seen # NULL /\ o.edit \in LoreEdit

\* The rows that a thread alone may come to tell of.
Claims(o) ==
  IF o.step = "announce" THEN {o.row}
  ELSE IF o.step = "write" /\ o.kind \in {"lore.create", "room.create"}
  THEN {<<o.kind, o.id>>}
  ELSE {}

\* A connection sees tables of now or of earlier, with rooms that are there.
ConnOK(c) ==
  /\ c = [intx |-> c.intx, snap |-> c.snap, behind |-> c.behind]
  /\ c.snap # NULL => /\ c.intx
                      /\ TablesOK(c.snap)
                      /\ DOMAIN c.snap.room \subseteq DOMAIN db.room
  /\ c.behind => c.snap # NULL

ConnsOK ==
  /\ conn = [t \in Thread |-> conn[t]]
  /\ \A t \in Thread : ConnOK(conn[t])

OpsOK ==
  /\ op = [t \in Thread |-> op[t]]
  /\ \A t \in Thread : Held(op[t])
  /\ \A t, u \in Thread : t # u => Claims(op[t]) \cap Claims(op[u]) = {}

ToldOnce ==
  /\ announced \cup unsaid \cup Kept(Announcing) = News
  /\ announced \cap Announcing = {}

RoomsInv ==
  /\ Shaped(db) /\ TablesOK(db) /\ held \in BOOLEAN
  /\ ConnsOK /\ OpsOK /\ ToldOnce

LEMMA TypesFromInv == RoomsInv => TypeOK
<1> SUFFICES ASSUME RoomsInv PROVE TypeOK
  OBVIOUS
<1>1. ASSUME NEW t \in Thread
      PROVE  OpOK(op[t])
  <2>1. Held(op[t])
    BY DEF RoomsInv, OpsOK
  <2> QED BY <2>1 DEF Held, OpOK, News, Told
<1> QED BY <1>1 DEF RoomsInv, ConnsOK, ConnOK, TypeOK

LEMMA BroadcastFromInv == RoomsInv => BroadcastOnce
<1> SUFFICES ASSUME RoomsInv PROVE BroadcastOnce
  OBVIOUS
<1>1. ASSUME NEW t \in Thread, NEW u \in Thread, t # u,
             op[t].step = "announce", op[u].step = "announce"
      PROVE  op[t].row # op[u].row
  BY <1>1 DEF RoomsInv, OpsOK, Claims
<1> QED BY <1>1 DEF RoomsInv, ToldOnce, BroadcastOnce

-----------------------------------------------------------------------------
(* What is kept while the ids and the rooms only grow. *)

Grows == used \subseteq used' /\ DOMAIN db.room \subseteq DOMAIN db'.room

LEMMA TablesKept ==
  ASSUME Grows, NEW T, TablesOK(T)
  PROVE  TablesOK(T)'
BY DEF Grows, TablesOK

LEMMA ConnKept ==
  ASSUME Grows, NEW c, ConnOK(c)
  PROVE  ConnOK(c)'
<1>1. c.snap # NULL => TablesOK(c.snap)'
  BY TablesKept DEF ConnOK
<1> QED BY <1>1 DEF ConnOK, Grows

LEMMA HeldKept ==
  ASSUME Grows, News \subseteq News', NEW o, Held(o),
         o.step = "write" /\ o.kind = "room.create" => o.id \notin DOMAIN db'.room
  PROVE  Held(o)'
<1>1. CASE o.step = "announce" /\ o.row \in News \cup ({"lore.create"} \X used)
  BY <1>1 DEF Held, Grows
<1>2. CASE o = Idle
  BY <1>2 DEF Held
<1>3. CASE o.step = "write"
  BY <1>3 DEF Held, Grows, Idle
<1> QED BY <1>1, <1>2, <1>3 DEF Held


LEMMA OpsKept ==
  ASSUME RoomsInv, Grows, News \subseteq News', NEW t \in Thread, NEW o,
         op' = [op EXCEPT ![t] = o], Held(o)',
         \A u \in Thread \ {t} : Claims(o) \cap Claims(op[u]) = {},
         \A u \in Thread \ {t} :
            op[u].step = "write" /\ op[u].kind = "room.create" =>
               op[u].id \notin DOMAIN db'.room
  PROVE  OpsOK'
<1>1. /\ op' = [u \in Thread |-> op'[u]]
      /\ op'[t] = o
      /\ \A u \in Thread \ {t} : op'[u] = op[u]
  BY DEF RoomsInv, OpsOK
<1>2. ASSUME NEW u \in Thread
      PROVE  Held(op[u])'
  <2>1. PICK x : x = op'[u]
    OBVIOUS
  <2>2. CASE u = t
    BY <1>1, <2>1, <2>2 DEF Held
  <2>3. CASE u # t
    <3>1. Held(x)
      BY <1>1, <2>1, <2>3 DEF RoomsInv, OpsOK
    <3>2. Held(x)'
      BY <1>1, <2>1, <2>3, <3>1, HeldKept
    <3> QED BY <2>1, <3>2 DEF Held
  <2> QED BY <2>2, <2>3
<1>3. ASSUME NEW u \in Thread, NEW v \in Thread, u # v
      PROVE  Claims(op'[u]) \cap Claims(op'[v]) = {}
  BY <1>1, <1>3 DEF RoomsInv, OpsOK
<1> QED
  BY <1>1, <1>2, <1>3 DEF OpsOK, Claims

-----------------------------------------------------------------------------
(* The connections. *)

LEMMA ConnsReplaced ==
  ASSUME Grows, NEW f, conn' = [u \in Thread |-> f[u]],
         \A u \in Thread : ConnOK(f[u])
  PROVE  ConnsOK'
<1>1. ASSUME NEW u \in Thread
      PROVE  ConnOK(conn[u])'
  <2>1. PICK c : c = f[u] /\ c = conn'[u]
    OBVIOUS
  <2>2. ConnOK(c)'
    BY <2>1, ConnKept
  <2> QED BY <2>1, <2>2 DEF ConnOK
<1> QED BY <1>1 DEF ConnsOK

LEMMA ConnsSame ==
  ASSUME RoomsInv, Grows, conn' = conn
  PROVE  ConnsOK'
<1>1. PICK f : f = conn
  OBVIOUS
<1> QED BY <1>1, ConnsReplaced DEF RoomsInv, ConnsOK

LEMMA ConnsSelected ==
  ASSUME RoomsInv, Grows, NEW t \in Thread, conn' = Selected(t)
  PROVE  ConnsOK'
<1>1. PICK f : f = Selected(t)
  OBVIOUS
<1>2. /\ f = [u \in Thread |-> f[u]]
      /\ \A u \in Thread \ {t} : f[u] = conn[u]
      /\ f[t] = IF conn[t].intx THEN [conn[t] EXCEPT !.snap = View(t)] ELSE conn[t]
  BY <1>1 DEF Selected, RoomsInv, ConnsOK
<1>3. ConnOK(conn[t])
  BY DEF RoomsInv, ConnsOK
<1>4. TablesOK(View(t)) /\ DOMAIN View(t).room \subseteq DOMAIN db.room
  BY <1>3 DEF View, ConnOK, RoomsInv
<1>5. ConnOK(f[t])
  <2>1. CASE conn[t].intx
    <3>1. f[t] = [conn[t] EXCEPT !.snap = View(t)]
      BY <1>2, <2>1
    <3>2. /\ f[t] = [intx |-> f[t].intx, snap |-> f[t].snap, behind |-> f[t].behind]
          /\ f[t].intx /\ f[t].snap = View(t) /\ f[t].behind = conn[t].behind
      BY <1>3, <2>1, <3>1 DEF ConnOK
    <3>3. conn[t].snap # NULL => View(t) # NULL
      BY DEF View
    <3> QED BY <1>3, <1>4, <3>2, <3>3 DEF ConnOK
  <2>2. CASE ~conn[t].intx
    BY <1>2, <1>3, <2>2
  <2> QED BY <2>1, <2>2
<1>6. \A u \in Thread : ConnOK(f[u])
  BY <1>2, <1>5 DEF RoomsInv, ConnsOK
<1> QED BY <1>1, <1>2, <1>6, ConnsReplaced

\* One connection is closed, cleaned or left in an open transaction.
LEMMA ConnsOneSet ==
  ASSUME RoomsInv, Grows, NEW t \in Thread, NEW c, ConnOK(c),
         conn' = [conn EXCEPT ![t] = c]
  PROVE  ConnsOK'
<1>1. PICK f : f = [conn EXCEPT ![t] = c]
  OBVIOUS
<1>2. f = [u \in Thread |-> f[u]] /\ \A u \in Thread : ConnOK(f[u])
  BY <1>1 DEF RoomsInv, ConnsOK
<1> QED BY <1>1, <1>2, ConnsReplaced

LEMMA CleanOK == ConnOK(Clean)
BY DEF ConnOK, Clean

LEMMA ConnsAfterCommit ==
  ASSUME RoomsInv, Grows, NEW t, conn' = AfterCommit(t)
  PROVE  ConnsOK'
<1>1. PICK f : f = AfterCommit(t)
  OBVIOUS
<1>2. f = [u \in Thread |-> f[u]]
  BY <1>1 DEF AfterCommit
<1>3. ASSUME NEW u \in Thread
      PROVE  ConnOK(f[u])
  <2>1. ConnOK(conn[u])
    BY DEF RoomsInv, ConnsOK
  <2>2. f[u] = IF u = t THEN Clean
               ELSE IF conn[u].snap = NULL THEN conn[u]
               ELSE [conn[u] EXCEPT !.behind = TRUE]
    BY <1>1 DEF AfterCommit
  <2>3. ASSUME conn[u].snap # NULL
        PROVE  ConnOK([conn[u] EXCEPT !.behind = TRUE])
    <3>1. PICK c : c = [conn[u] EXCEPT !.behind = TRUE]
      OBVIOUS
    <3>2. /\ c = [intx |-> c.intx, snap |-> c.snap, behind |-> c.behind]
          /\ c.intx = conn[u].intx /\ c.snap = conn[u].snap
      BY <2>1, <3>1 DEF ConnOK
    <3>3. ConnOK(c)
      BY <2>1, <2>3, <3>2 DEF ConnOK
    <3> QED BY <3>1, <3>3
  <2> QED BY <2>1, <2>2, <2>3, CleanOK
<1> QED BY <1>1, <1>2, <1>3, ConnsReplaced

LEMMA ConnsRefused ==
  ASSUME RoomsInv, Grows, NEW t \in Thread, conn' = [conn EXCEPT ![t].intx = TRUE]
  PROVE  ConnsOK'
<1>1. PICK c : c = [conn[t] EXCEPT !.intx = TRUE]
  OBVIOUS
<1>2. ConnOK(conn[t])
  BY DEF RoomsInv, ConnsOK
<1>3. ConnOK(c)
  BY <1>1, <1>2 DEF ConnOK
<1>4. conn' = [conn EXCEPT ![t] = c]
  BY <1>1
<1> QED BY <1>3, <1>4, ConnsOneSet

-----------------------------------------------------------------------------
(* Handlers that start. *)

\* A handler that has nothing to tell goes on with something else.
LEMMA StartInv ==
  ASSUME RoomsInv, UNCHANGED <<db, held, history>>, used \subseteq used', ConnsOK',
         NEW t \in Thread, NEW o, op[t].step # "announce",
         op' = [op EXCEPT ![t] = o], Held(o)', o.step # "announce",
         \A u \in Thread \ {t} : Claims(o) \cap Claims(op[u]) = {}
  PROVE  RoomsInv'
<1>1. Grows /\ News' = News
  BY DEF Grows, News
<1>2. OpsOK'
  <2>1. \A u \in Thread \ {t} :
           op[u].step = "write" /\ op[u].kind = "room.create" =>
              op[u].id \notin DOMAIN db'.room
    BY DEF RoomsInv, OpsOK, Held, Idle
  <2> QED BY <1>1, <2>1, OpsKept
<1>3. Announcing' = Announcing
  <2>1. op'[t] = o /\ \A u \in Thread \ {t} : op'[u] = op[u]
    BY DEF RoomsInv, OpsOK
  <2> QED BY <2>1 DEF Announcing
<1>4. ToldOnce'
  BY <1>1, <1>3 DEF RoomsInv, ToldOnce, history, Kept
<1>5. PICK T : T = db /\ T = db'
  OBVIOUS
<1>6. Shaped(T) /\ TablesOK(T)'
  BY <1>1, <1>5, TablesKept DEF RoomsInv
<1> QED BY <1>2, <1>4, <1>5, <1>6 DEF RoomsInv, Shaped, TablesOK

\* A handler that looked something up claims nothing.
LEMMA LookUpInv ==
  ASSUME RoomsInv, NEW t \in Thread, NEW found, NEW o, LooksUp(t, found, o),
         found => Held(o), o.step # "announce", Claims(o) = {}
  PROVE  RoomsInv'
<1>1. PICK x : x = IF found THEN o ELSE Idle
  OBVIOUS
<1>2. /\ op[t] = Idle /\ op' = [op EXCEPT ![t] = x]
      /\ conn' = Selected(t)
      /\ UNCHANGED <<db, held, used, history>>
  BY <1>1 DEF LooksUp
<1>3. Grows
  BY <1>2 DEF Grows
<1>4. ConnsOK'
  BY <1>2, <1>3, ConnsSelected
<1>5. Held(Idle) /\ Claims(Idle) = {} /\ Idle.step # "announce"
  BY DEF Held, Claims, Idle
<1>6. Held(x) /\ Claims(x) = {} /\ x.step # "announce"
  BY <1>1, <1>5
<1>7. Held(x)'
  BY <1>2, <1>6 DEF Held, News
<1>8. /\ op[t].step # "announce" /\ used \subseteq used'
      /\ \A u \in Thread \ {t} : Claims(x) \cap Claims(op[u]) = {}
  BY <1>2, <1>6 DEF Idle
<1> QED BY <1>2, <1>4, <1>6, <1>7, <1>8, StartInv


LEMMA SubmitInv ==
  ASSUME RoomsInv, NEW t \in Thread, NEW o, Submits(t, o), used \subseteq used',
         Held(o)', o.step # "announce",
         \A u \in Thread \ {t} : Claims(o) \cap Claims(op[u]) = {}
  PROVE  RoomsInv'
<1>1. /\ op[t].step # "announce" /\ op' = [op EXCEPT ![t] = o]
      /\ UNCHANGED <<dbVars, history>>
  BY DEF Submits, Idle
<1>2. ConnsOK'
  BY <1>1, ConnsSame DEF dbVars, Grows
<1> QED BY <1>1, <1>2, StartInv DEF dbVars

\* Nobody else claims a row by an id that was not given out.
LEMMA FreshIsUnclaimed ==
  ASSUME RoomsInv, NEW id, id \notin used, NEW kind \in {"lore.create", "room.create"},
         NEW u \in Thread
  PROVE  <<kind, id>> \notin Claims(op[u])
<1>1. Held(op[u]) /\ DOMAIN db.room \subseteq used
  BY DEF RoomsInv, OpsOK, TablesOK
<1> QED BY <1>1 DEF Held, Claims, News, Idle

\* The handlers that insert: no look-up, a fresh id.
LEMMA CreateInv ==
  ASSUME RoomsInv, NEW t \in Thread,
         CreateLore(t) \/ ImportCharacter(t) \/ CreateRoom(t)
  PROVE  RoomsInv'
<1>1. ASSUME NEW id \in LoreId \ used, NEW row \in LoreRow, used' = used \cup {id},
             Submits(t, WriteRow("lore.create", id, row))
      PROVE  RoomsInv'
  <2>1. PICK o : o = WriteRow("lore.create", id, row)
    OBVIOUS
  <2>2. Held(o)' /\ o.step # "announce" /\ Claims(o) = {<<"lore.create", id>>}
    BY <1>1, <2>1 DEF WriteRow, Held, Kind, Claims
  <2>3. \A u \in Thread : <<"lore.create", id>> \notin Claims(op[u])
    BY <1>1, FreshIsUnclaimed
  <2> QED BY <1>1, <2>1, <2>2, <2>3, SubmitInv
<1>2. ASSUME NEW id \in CharId \ used, NEW row \in CharRow, used' = used \cup {id},
             Submits(t, WriteRow("character.create", id, row))
      PROVE  RoomsInv'
  <2>1. PICK o : o = WriteRow("character.create", id, row)
    OBVIOUS
  <2>2. Held(o)' /\ o.step # "announce" /\ Claims(o) = {}
    BY <1>2, <2>1 DEF WriteRow, Held, Kind, Claims
  <2>3. used \subseteq used' /\ \A u \in Thread : Claims(o) \cap Claims(op[u]) = {}
    BY <1>2, <2>2
  <2> QED BY <1>2, <2>1, <2>2, <2>3, SubmitInv
<1>3. ASSUME NEW id \in RoomId \ used, used' = used \cup {id},
             Submits(t, Write("room.create", id))
      PROVE  RoomsInv'
  <2>1. PICK o : o = Write("room.create", id)
    OBVIOUS
  <2>2. id \notin DOMAIN db'.room
    BY <1>3 DEF Submits, dbVars, RoomsInv, TablesOK
  <2>3. Held(o)' /\ o.step # "announce" /\ Claims(o) = {<<"room.create", id>>}
    BY <1>3, <2>1, <2>2 DEF Write, Held, Kind, Claims
  <2>4. \A u \in Thread : <<"room.create", id>> \notin Claims(op[u])
    BY <1>3, FreshIsUnclaimed
  <2> QED BY <1>3, <2>1, <2>3, <2>4, SubmitInv
<1> QED BY <1>1, <1>2, <1>3 DEF CreateLore, ImportCharacter, CreateRoom

\* The rows that a handler finds: in the tables of now or of a while ago.
LEMMA ViewOK ==
  ASSUME RoomsInv, NEW t \in Thread
  PROVE  TablesOK(View(t)) /\ DOMAIN View(t).room \subseteq DOMAIN db.room
BY DEF RoomsInv, ConnsOK, ConnOK, View

\* The handlers that look a lorebook entry or a character up.
LEMMA LoreOrCharacterInv ==
  ASSUME RoomsInv, NEW t \in Thread,
         UpdateLore(t) \/ DeleteLore(t) \/ UpdateCharacter(t) \/ DeleteCharacter(t)
  PROVE  RoomsInv'
<1>1. ASSUME NEW id \in LoreId \cap used, NEW edit \in LoreEdit, NEW seen,
             LooksUp(t, seen # NULL, WriteEdit("lore.update", id, seen, edit))
      PROVE  RoomsInv'
  <2>1. PICK o : o = WriteEdit("lore.update", id, seen, edit)
    OBVIOUS
  <2>2. (seen # NULL => Held(o)) /\ o.step # "announce" /\ Claims(o) = {}
    BY <1>1, <2>1 DEF WriteEdit, Held, Kind, Claims
  <2> QED BY <1>1, <2>1, <2>2, LookUpInv
<1>2. ASSUME NEW id \in LoreId \cap used, NEW found,
             LooksUp(t, found, Write("lore.delete", id))
      PROVE  RoomsInv'
  <2>1. PICK o : o = Write("lore.delete", id)
    OBVIOUS
  <2>2. Held(o) /\ o.step # "announce" /\ Claims(o) = {}
    BY <1>2, <2>1 DEF Write, Held, Kind, Claims
  <2> QED BY <1>2, <2>1, <2>2, LookUpInv
<1>3. ASSUME NEW id \in CharId \cap used, NEW edit \in CharEdit, NEW found,
             LooksUp(t, found, WriteEdit("character.update", id, NULL, edit))
      PROVE  RoomsInv'
  <2>1. PICK o : o = WriteEdit("character.update", id, NULL, edit)
    OBVIOUS
  <2>2. Held(o) /\ o.step # "announce" /\ Claims(o) = {}
    BY <1>3, <2>1 DEF WriteEdit, Held, Kind, Claims
  <2> QED BY <1>3, <2>1, <2>2, LookUpInv
<1>4. ASSUME NEW id \in CharId \cap used, NEW found,
             LooksUp(t, found, Write("character.delete", id))
      PROVE  RoomsInv'
  <2>1. PICK o : o = Write("character.delete", id)
    OBVIOUS
  <2>2. Held(o) /\ o.step # "announce" /\ Claims(o) = {}
    BY <1>4, <2>1 DEF Write, Held, Kind, Claims
  <2> QED BY <1>4, <2>1, <2>2, LookUpInv
<1> QED
  BY <1>1, <1>2, <1>3, <1>4 DEF UpdateLore, DeleteLore, UpdateCharacter, DeleteCharacter

\* The handlers of rooms: a room that was found is still there.
LEMMA RoomHandlerInv ==
  ASSUME RoomsInv, NEW t \in Thread,
         \/ ArchiveRoom(t) \/ SendMessage(t)
         \/ AddParticipant(t) \/ RemoveParticipant(t)
  PROVE  RoomsInv'
<1>1. ASSUME NEW id \in RoomId \cap used, NEW kind \in {"room.archive", "message.send"},
             LooksUp(t, id \in DOMAIN View(t).room, Write(kind, id))
      PROVE  RoomsInv'
  <2>1. PICK o : o = Write(kind, id)
    OBVIOUS
  <2>2. id \in DOMAIN View(t).room => id \in DOMAIN db.room
    BY ViewOK
  <2>3. /\ id \in DOMAIN View(t).room => Held(o)
        /\ o.step # "announce" /\ Claims(o) = {}
    BY <1>1, <2>1, <2>2 DEF Write, Held, Kind, Claims
  <2> QED BY <1>1, <2>1, <2>3, LookUpInv
<1>2. ASSUME NEW id \in RoomId \cap used, NEW c \in CharId,
             LooksUp(t, id \in DOMAIN View(t).room,
                     WriteParticipant("participant.add", id, c))
      PROVE  RoomsInv'
  <2>1. PICK o : o = WriteParticipant("participant.add", id, c)
    OBVIOUS
  <2>2. id \in DOMAIN View(t).room => id \in DOMAIN db.room
    BY ViewOK
  <2>3. /\ id \in DOMAIN View(t).room => Held(o)
        /\ o.step # "announce" /\ Claims(o) = {}
    BY <1>2, <2>1, <2>2 DEF WriteParticipant, Held, Kind, Claims
  <2> QED BY <1>2, <2>1, <2>3, LookUpInv
<1>3. ASSUME NEW id \in RoomId, NEW c \in CharId, used' = used,
             Submits(t, WriteParticipant("participant.remove", id, c))
      PROVE  RoomsInv'
  <2>1. PICK o : o = WriteParticipant("participant.remove", id, c)
    OBVIOUS
  <2>2. Held(o)' /\ o.step # "announce" /\ Claims(o) = {}
    BY <1>3, <2>1 DEF WriteParticipant, Held, Kind, Claims
  <2> QED BY <1>3, <2>1, <2>2, SubmitInv
<1> QED
  BY <1>1, <1>2, <1>3 DEF ArchiveRoom, SendMessage, AddParticipant, RemoveParticipant

LEMMA StartsInv ==
  ASSUME RoomsInv, NEW t \in Thread, Starts(t)
  PROVE  RoomsInv'
<1>1. CASE ReadOnly(t)
  <2>1. Held(Idle) /\ Claims(Idle) = {} /\ Idle.step # "announce"
    BY DEF Held, Claims, Idle
  <2> QED BY <1>1, <2>1, LookUpInv DEF ReadOnly
<1> QED BY <1>1, CreateInv, LoreOrCharacterInv, RoomHandlerInv DEF Starts


-----------------------------------------------------------------------------
(* Writing. *)

\* The rows of the news that a write adds.
Fresh(o) ==
  IF o.kind = "message.send" THEN {<<"message.send", Len(db.message) + 1>>}
  ELSE IF o.kind = "room.create" THEN {<<"room.create", o.id>>}
  ELSE {}

\* A statement keeps the tables well formed and drops no room.
LEMMA WrittenOK ==
  ASSUME RoomsInv, NEW o, Held(o), o.step = "write", NEW T, T = Written(o)
  PROVE  /\ Shaped(T) /\ TablesOK(T)
         /\ DOMAIN T.room = DOMAIN db.room
               \cup (IF o.kind = "room.create" THEN {o.id} ELSE {})
         /\ T.message = IF o.kind = "message.send"
                        THEN Append(db.message, o.id) ELSE db.message
<1>1. /\ o.kind \in Kind
      /\ o.id \in LoreId \cup CharId \cup RoomId
      /\ o.kind \in {"lore.create", "lore.update", "lore.delete"} =>
            o.id \in LoreId \cap used
      /\ o.kind \in {"character.create", "character.update", "character.delete"} =>
            o.id \in CharId \cap used
      /\ o.kind = "room.create" => o.id \in RoomId \cap used
      /\ o.kind \in {"room.archive", "message.send", "participant.add"} =>
            o.id \in DOMAIN db.room
      /\ o.kind = "participant.add" => o.character \in CharId
  BY DEF Held, Idle
<1>2. Shaped(db) /\ TablesOK(db)
  BY DEF RoomsInv
<1>2b. /\ DOMAIN db.lore \subseteq LoreId \cap used
       /\ DOMAIN db.character \subseteq CharId \cap used
       /\ db.participant \subseteq (DOMAIN db.room) \X CharId
  BY <1>2 DEF TablesOK
<1>3. CASE o.kind \in {"lore.create", "lore.update", "lore.delete"}
  <2>1. /\ DOMAIN T.lore \subseteq LoreId \cap used
        /\ T.character = db.character /\ T.room = db.room
        /\ T.participant = db.participant /\ T.message = db.message
        /\ Shaped(T)
    <3>1. CASE o.kind = "lore.create"
      BY <1>1, <1>2, <1>2b, <3>1 DEF SetRow, DropRow, Written, Shaped
    <3>2. CASE o.kind = "lore.update"
      BY <1>1, <1>2, <1>2b, <3>2 DEF SetRow, DropRow, Written, Shaped, UpdatedLore
    <3>3. CASE o.kind = "lore.delete"
      BY <1>1, <1>2, <1>2b, <3>3 DEF SetRow, DropRow, Written, Shaped
    <3> QED BY <1>3, <3>1, <3>2, <3>3
  <2> QED BY <1>2, <1>3, <2>1 DEF TablesOK
<1>4. CASE o.kind \in {"character.create", "character.update", "character.delete"}
  <2>1. /\ DOMAIN T.character \subseteq CharId \cap used
        /\ T.lore = db.lore /\ T.room = db.room
        /\ T.participant = db.participant /\ T.message = db.message
        /\ Shaped(T)
    <3>1. CASE o.kind = "character.create"
      BY <1>1, <1>2, <1>2b, <3>1 DEF SetRow, DropRow, Written, Shaped
    <3>2. CASE o.kind = "character.update"
      BY <1>1, <1>2, <1>2b, <3>2 DEF SetRow, DropRow, Written, Shaped, UpdatedCharacter
    <3>3. CASE o.kind = "character.delete"
      BY <1>1, <1>2, <1>2b, <3>3 DEF SetRow, DropRow, Written, Shaped
    <3> QED BY <1>4, <3>1, <3>2, <3>3
  <2> QED BY <1>2, <1>4, <2>1 DEF TablesOK
<1>5. CASE o.kind \in {"room.create", "room.archive"}
  <2>1. /\ DOMAIN T.room = DOMAIN db.room \cup {o.id}
        /\ T.lore = db.lore /\ T.character = db.character
        /\ T.participant = db.participant /\ T.message = db.message
        /\ Shaped(T)
    <3>1. CASE o.kind = "room.create"
      BY <1>2, <3>1 DEF SetRow, DropRow, Written, Shaped
    <3>2. CASE o.kind = "room.archive"
      BY <1>2, <3>2 DEF SetRow, DropRow, Written, Shaped
    <3> QED BY <1>5, <3>1, <3>2
  <2>2. o.id \in RoomId \cap used
    BY <1>1, <1>2, <1>5 DEF TablesOK
  <2>3. DOMAIN db.room \subseteq DOMAIN T.room
    BY <2>1
  <2>4. db.message \in Seq(DOMAIN T.room)
    BY <1>2, <2>3 DEF TablesOK
  <2>5. TablesOK(T)
    BY <1>2, <2>1, <2>2, <2>3, <2>4 DEF TablesOK
  <2> QED BY <1>1, <1>5, <2>1, <2>5
<1>6. CASE o.kind = "message.send"
  <2>1. T = [db EXCEPT !.message = Append(db.message, o.id)]
    BY <1>6 DEF Written
  <2>2. Append(db.message, o.id) \in Seq(DOMAIN db.room)
    BY <1>1, <1>2, <1>6, AppendProperties DEF TablesOK
  <2> QED BY <1>2, <1>6, <2>1, <2>2 DEF Shaped, TablesOK
<1>7. CASE o.kind \in {"participant.add", "participant.remove"}
  <2>1. /\ T.participant \subseteq (DOMAIN db.room) \X CharId
        /\ T.lore = db.lore /\ T.character = db.character
        /\ T.room = db.room /\ T.message = db.message
        /\ Shaped(T)
    <3>1. CASE o.kind = "participant.add"
      BY <1>1, <1>2, <1>2b, <3>1 DEF SetRow, DropRow, Written, Shaped
    <3>2. CASE o.kind = "participant.remove"
      BY <1>1, <1>2, <1>2b, <3>2 DEF SetRow, DropRow, Written, Shaped
    <3> QED BY <1>7, <3>1, <3>2
  <2> QED BY <1>2, <1>7, <2>1 DEF TablesOK
<1> QED BY <1>1, <1>3, <1>4, <1>5, <1>6, <1>7 DEF Kind


\* What is told of a write is new, and nobody else tells it.
LEMMA FreshIsNew ==
  ASSUME RoomsInv, NEW t \in Thread, op[t].step = "write"
  PROVE  /\ Fresh(op[t]) \cap News = {}
         /\ \A u \in Thread \ {t} :
               Claims(Announcement(op[t])) \cap Claims(op[u]) = {}
         /\ Kept(Claims(Announcement(op[t]))) = Fresh(op[t])
<1>1. PICK o : o = op[t]
  OBVIOUS
<1>2. Held(o) /\ o.step = "write" /\ o.kind \in Kind
  BY <1>1 DEF RoomsInv, OpsOK, Held, Idle
<1>3. /\ db.message \in Seq(DOMAIN db.room)
      /\ Len(db.message) \in Nat
      /\ Len(db.message) + 1 \notin DOMAIN db.message
  BY LenProperties DEF RoomsInv, TablesOK
<1>4. ASSUME NEW u \in Thread \ {t}
      PROVE  /\ Held(op[u])
             /\ o.kind \in {"lore.create", "room.create"} =>
                   <<o.kind, o.id>> \notin Claims(op[u])
  BY <1>1, <1>2 DEF RoomsInv, OpsOK, Claims
<1>5. CASE o.kind = "message.send"
  <2>1. /\ Fresh(o) = {<<"message.send", Len(db.message) + 1>>}
        /\ Claims(Announcement(o)) = Fresh(o)
        /\ Kept(Fresh(o)) = Fresh(o)
    BY <1>5 DEF Fresh, Announcement, Claims, Told, Kept
  <2>2. <<"message.send", Len(db.message) + 1>> \notin News
    BY <1>3 DEF News
  <2>3. ASSUME NEW u \in Thread \ {t}
        PROVE  <<"message.send", Len(db.message) + 1>> \notin Claims(op[u])
    <3>1. CASE op[u].step = "announce"
      <4>1. op[u].row \in News \cup ({"lore.create"} \X used)
        BY <1>4, <3>1 DEF Held, Idle
      <4> QED BY <2>2, <3>1, <4>1 DEF Claims
    <3>2. CASE op[u].step # "announce"
      BY <3>2 DEF Claims
    <3> QED BY <3>1, <3>2
  <2> QED BY <1>1, <2>1, <2>2, <2>3
<1>6. CASE o.kind = "room.create"
  <2>1. /\ Fresh(o) = {<<"room.create", o.id>>}
        /\ Claims(Announcement(o)) = Fresh(o)
        /\ Kept(Fresh(o)) = Fresh(o)
    BY <1>6 DEF Fresh, Announcement, Claims, Told, Kept
  <2>2. <<"room.create", o.id>> \notin News
    BY <1>2, <1>6 DEF News, Held, Idle
  <2> QED BY <1>1, <1>4, <1>6, <2>1, <2>2
<1>7. CASE o.kind = "lore.create"
  <2>1. /\ Fresh(o) = {}
        /\ Claims(Announcement(o)) = {<<"lore.create", o.id>>}
        /\ Kept({<<"lore.create", o.id>>}) = {}
    BY <1>7 DEF Fresh, Announcement, Claims, Told, Kept
  <2> QED BY <1>1, <1>4, <1>7, <2>1
<1>8. CASE o.kind \notin {"message.send", "room.create", "lore.create"}
  <2>1. Fresh(o) = {} /\ Claims(Announcement(o)) = {} /\ Kept({}) = {}
    BY <1>8 DEF Fresh, Announcement, Claims, Told, Kept, Idle
  <2> QED BY <1>1, <2>1
<1> QED BY <1>5, <1>6, <1>7, <1>8

LEMMA WriteAndCommitInv ==
  ASSUME RoomsInv, NEW t \in Thread, WriteAndCommit(t)
  PROVE  RoomsInv'
<1>a. PICK o : o = op[t]
  OBVIOUS
<1>b. PICK T : T = Written(o)
  OBVIOUS
<1>c. PICK a : a = Announcement(o)
  OBVIOUS
<1>1. /\ o.step = "write" /\ db' = T /\ op' = [op EXCEPT ![t] = a]
      /\ conn' = AfterCommit(t) \/ conn' = [conn EXCEPT ![t] = Clean]
      /\ UNCHANGED <<held, used, history>>
  BY <1>a, <1>b, <1>c DEF WriteAndCommit, Commit
<1>2. Held(o) /\ o.kind \in Kind
  BY <1>1, <1>a DEF RoomsInv, OpsOK, Held, Idle
<1>3. /\ Shaped(T) /\ TablesOK(T)
      /\ DOMAIN T.room = DOMAIN db.room
            \cup (IF o.kind = "room.create" THEN {o.id} ELSE {})
      /\ T.message = IF o.kind = "message.send"
                     THEN Append(db.message, o.id) ELSE db.message
  BY <1>1, <1>2, <1>b, WrittenOK
<1>4. /\ Fresh(o) \cap News = {}
      /\ \A u \in Thread \ {t} : Claims(a) \cap Claims(op[u]) = {}
      /\ Kept(Claims(a)) = Fresh(o)
  BY <1>1, <1>a, <1>c, FreshIsNew
<1>5. News' = News \cup Fresh(o)
  <2>1. DOMAIN T.message = DOMAIN db.message
           \cup (IF o.kind = "message.send" THEN {Len(db.message) + 1} ELSE {})
    <3>1. db.message \in Seq(DOMAIN db.room)
      BY DEF RoomsInv, TablesOK
    <3>2. CASE o.kind = "message.send"
      <4>1. /\ o.id \in DOMAIN db.room
            /\ Len(db.message) \in Nat
            /\ DOMAIN db.message = 1 .. Len(db.message)
        BY <1>1, <1>2, <3>1, <3>2, LenProperties DEF Held, Idle
      <4>2. DOMAIN T.message = 1 .. (Len(db.message) + 1)
        BY <1>3, <3>1, <3>2, <4>1, AppendProperties
      <4> QED BY <3>2, <4>1, <4>2
    <3> QED BY <1>3, <3>2
  <2>2. News' = {<<"message.send", i>> : i \in DOMAIN T.message}
                   \cup {<<"room.create", id>> : id \in DOMAIN T.room}
    BY <1>1 DEF News
  <2> QED BY <1>3, <2>1, <2>2 DEF News, Fresh
<1>6. Grows /\ News \subseteq News'
  BY <1>1, <1>3, <1>5 DEF Grows
<1>7. ConnsOK'
  BY <1>1, <1>6, CleanOK, ConnsAfterCommit, ConnsOneSet
<1>8. Held(a)'
  <2>1. CASE o.kind \in Told
    <3>1. a.step = "announce" /\ Claims(a) = {a.row} /\ a.row[1] = o.kind
      BY <1>c, <2>1 DEF Announcement, Claims
    <3>2. CASE o.kind = "lore.create"
      <4>1. a.row = <<"lore.create", o.id>> /\ o.id \in used'
        BY <1>1, <1>2, <1>c, <3>2 DEF Announcement, Told, Held, Idle
      <4> QED BY <3>1, <4>1 DEF Held
    <3>3. CASE o.kind # "lore.create"
      <4>1. a.row \in Fresh(o)
        BY <1>4, <3>1, <3>3 DEF Kept
      <4> QED BY <1>5, <3>1, <4>1 DEF Held
    <3> QED BY <3>2, <3>3
  <2>2. CASE o.kind \notin Told
    BY <1>c, <2>2 DEF Announcement, Held
  <2> QED BY <2>1, <2>2
<1>9. OpsOK'
  <2>1. ASSUME NEW u \in Thread \ {t}, op[u].step = "write", op[u].kind = "room.create"
        PROVE  op[u].id \notin DOMAIN db'.room
    <3>1. op[u].id \notin DOMAIN db.room
      BY <2>1 DEF RoomsInv, OpsOK, Held, Idle
    <3>2. o.kind = "room.create" => op[u].id # o.id
      BY <1>1, <1>a, <2>1 DEF RoomsInv, OpsOK, Claims
    <3> QED BY <1>1, <1>3, <3>1, <3>2
  <2> QED BY <1>1, <1>4, <1>6, <1>8, <2>1, OpsKept
<1>10. Announcing' = Announcing \cup Claims(a)
  <2>1. /\ op'[t] = a /\ op[t].step # "announce"
        /\ \A u \in Thread \ {t} : op'[u] = op[u]
    BY <1>1, <1>a DEF RoomsInv, OpsOK
  <2>2. Claims(a) = IF a.step = "announce" THEN {a.row} ELSE {}
    BY <1>c DEF Claims, Announcement, Idle
  <2> QED BY <2>1, <2>2 DEF Announcing
<1>11. ToldOnce'
  <2>1. Kept(Announcing') = Kept(Announcing) \cup Fresh(o)
    BY <1>4, <1>10 DEF Kept
  <2>2. announced \cap Claims(a) = {}
    <3>1. announced \subseteq News /\ \A row \in News : row[1] # "lore.create"
      BY DEF RoomsInv, ToldOnce, News
    <3>2. \A row \in Claims(a) : row[1] = "lore.create" \/ row \in Fresh(o)
      BY <1>4 DEF Kept
    <3> QED BY <1>4, <3>1, <3>2
  <2> QED
    BY <1>1, <1>5, <1>10, <2>1, <2>2 DEF RoomsInv, ToldOnce, history, Kept
<1>12. Shaped(T) /\ TablesOK(T)'
  BY <1>3, <1>6, TablesKept
<1> QED BY <1>1, <1>7, <1>9, <1>11, <1>12 DEF RoomsInv, Shaped, TablesOK


-----------------------------------------------------------------------------
(* Telling, failing, stopping. *)

LEMMA WriteFailsInv ==
  ASSUME RoomsInv, NEW t \in Thread, WriteFails(t)
  PROVE  RoomsInv'
<1>1. /\ op[t].step # "announce" /\ op' = [op EXCEPT ![t] = Idle]
      /\ conn' = [conn EXCEPT ![t].intx = TRUE]
      /\ UNCHANGED <<db, held, used, history>>
  BY DEF WriteFails, Refused
<1>2. ConnsOK'
  BY <1>1, ConnsRefused DEF Grows
<1>3. Held(Idle)' /\ Claims(Idle) = {} /\ Idle.step # "announce"
  BY DEF Held, Claims, Idle
<1> QED BY <1>1, <1>2, <1>3, StartInv

LEMMA AnnounceInv ==
  ASSUME RoomsInv, NEW t \in Thread, Announce(t)
  PROVE  RoomsInv'
<1>a. PICK row : row = op[t].row
  OBVIOUS
<1>1. /\ op[t].step = "announce" /\ op' = [op EXCEPT ![t] = Idle]
      /\ announced' = announced \cup Kept({row})
      /\ UNCHANGED <<dbVars, used, unsaid>>
  BY <1>a DEF Announce
<1>2. Grows /\ News' = News
  BY <1>1 DEF Grows, News, dbVars
<1>3. ConnsOK'
  BY <1>1, <1>2, ConnsSame DEF dbVars
<1>4. Held(Idle)' /\ Claims(Idle) = {}
  BY DEF Held, Claims, Idle
<1>5. OpsOK'
  <2>1. \A u \in Thread \ {t} :
           op[u].step = "write" /\ op[u].kind = "room.create" =>
              op[u].id \notin DOMAIN db'.room
    BY <1>1 DEF RoomsInv, OpsOK, Held, Idle, dbVars
  <2> QED BY <1>1, <1>2, <1>4, <2>1, OpsKept
<1>6. Announcing = Announcing' \cup {row} /\ row \notin Announcing'
  <2>1. /\ op'[t] = Idle /\ \A u \in Thread \ {t} : op'[u] = op[u]
    BY <1>1 DEF RoomsInv, OpsOK
  <2>2. \A u \in Thread \ {t} : op[u].step = "announce" => op[u].row # row
    BY <1>1, <1>a DEF RoomsInv, OpsOK, Claims
  <2> QED BY <1>1, <1>a, <2>1, <2>2 DEF Announcing, Idle
<1>7. ToldOnce'
  <2>1. Kept(Announcing) = Kept(Announcing') \cup Kept({row})
    BY <1>6 DEF Kept
  <2>2. Kept({row}) \subseteq {row}
    BY DEF Kept
  <2> QED
    BY <1>1, <1>2, <1>6, <2>1, <2>2 DEF RoomsInv, ToldOnce, Kept
<1>8. PICK T : T = db /\ T = db'
  BY <1>1 DEF dbVars
<1>9. Shaped(T) /\ TablesOK(T)'
  BY <1>2, <1>8, TablesKept DEF RoomsInv
<1> QED BY <1>1, <1>3, <1>5, <1>7, <1>8, <1>9 DEF RoomsInv, Shaped, TablesOK, dbVars

LEMMA RestartInv == RoomsInv /\ Restart => RoomsInv'
<1> SUFFICES ASSUME RoomsInv, Restart PROVE RoomsInv'
  OBVIOUS
<1>1. /\ op' = [t \in Thread |-> Idle]
      /\ conn' = [t \in Thread |-> Clean]
      /\ held' = FALSE
      /\ unsaid' = unsaid \cup Kept(Announcing)
      /\ UNCHANGED <<db, used, announced>>
  BY DEF Restart
<1>2. Grows /\ News' = News
  BY <1>1 DEF Grows, News
<1>3. ConnsOK'
  <2>1. PICK f : f = [t \in Thread |-> Clean]
    OBVIOUS
  <2> QED BY <1>1, <1>2, <2>1, CleanOK, ConnsReplaced
<1>4. OpsOK'
  BY <1>1 DEF OpsOK, Held, Claims, Idle
<1>5. Announcing' = {}
  BY <1>1 DEF Announcing, Idle
<1>6. ToldOnce'
  BY <1>1, <1>2, <1>5 DEF RoomsInv, ToldOnce, Kept
<1>7. PICK T : T = db /\ T = db'
  BY <1>1
<1>8. Shaped(T) /\ TablesOK(T)'
  BY <1>2, <1>7, TablesKept DEF RoomsInv
<1> QED BY <1>1, <1>3, <1>4, <1>6, <1>7, <1>8 DEF RoomsInv, Shaped, TablesOK

\* Steps that touch connections and the lock only.
LEMMA ConnectionInv ==
  ASSUME RoomsInv, UNCHANGED <<db, op, used, history>>, held' \in BOOLEAN, ConnsOK'
  PROVE  RoomsInv'
<1>1. Grows /\ News' = News /\ Announcing' = Announcing
  BY DEF Grows, News, Announcing
<1>2. OpsOK'
  <2>1. ASSUME NEW t \in Thread
        PROVE  Held(op[t])'
    <3>1. PICK x : x = op[t] /\ x = op'[t]
      OBVIOUS
    <3>2. Held(x)
      BY <3>1 DEF RoomsInv, OpsOK
    <3> QED BY <1>1, <3>1, <3>2 DEF Held
  <2> QED BY <2>1 DEF RoomsInv, OpsOK, Claims
<1>3. ToldOnce'
  BY <1>1 DEF RoomsInv, ToldOnce, history, Kept
<1>4. PICK T : T = db /\ T = db'
  OBVIOUS
<1>5. Shaped(T) /\ TablesOK(T)'
  BY <1>1, <1>4, TablesKept DEF RoomsInv
<1> QED BY <1>2, <1>3, <1>4, <1>5 DEF RoomsInv, Shaped, TablesOK

LEMMA RetireOrOthersInv ==
  ASSUME RoomsInv, (\E t \in Thread : RetireIdle(t)) \/ Others
  PROVE  RoomsInv'
<1>1. ASSUME NEW t \in Thread, RetireIdle(t)
      PROVE  RoomsInv'
  <2>1. conn' = [conn EXCEPT ![t] = Clean] /\ UNCHANGED <<db, held, op, used, history>>
    BY <1>1 DEF RetireIdle, Retire
  <2>2. ConnsOK'
    BY <2>1, CleanOK, ConnsOneSet DEF Grows
  <2> QED BY <2>1, <2>2, ConnectionInv DEF RoomsInv
<1>2. CASE Others
  <2>1. /\ conn' = conn \/ conn' = AfterCommit(NULL)
        /\ held' \in BOOLEAN
        /\ UNCHANGED <<db, op, used, history>>
    BY <1>2 DEF Others, Hold, Release
  <2>2. ConnsOK'
    BY <2>1, ConnsSame, ConnsAfterCommit DEF Grows
  <2> QED BY <2>1, <2>2, ConnectionInv
<1> QED BY <1>1, <1>2

-----------------------------------------------------------------------------
LEMMA InitRoomsInv == Init => RoomsInv
<1> SUFFICES ASSUME Init PROVE RoomsInv
  OBVIOUS
<1>1. Shaped(db) /\ TablesOK(db)
  BY DEF Init, DBInit, NoTables, Shaped, TablesOK
<1>2. ConnsOK /\ OpsOK
  BY DEF Init, DBInit, ConnsOK, ConnOK, Clean, OpsOK, Held, Claims, Idle
<1>3. ToldOnce
  BY DEF Init, DBInit, NoTables, ToldOnce, Announcing, Kept, News, Idle
<1> QED BY <1>1, <1>2, <1>3 DEF RoomsInv, Init, DBInit

LEMMA NextRoomsInv == RoomsInv /\ [Next]_vars => RoomsInv'
<1> SUFFICES ASSUME RoomsInv, [Next]_vars PROVE RoomsInv'
  OBVIOUS
<1>1. ASSUME NEW t \in Thread, Starts(t) \/ Goes(t)
      PROVE  RoomsInv'
  BY <1>1, StartsInv, WriteAndCommitInv, WriteFailsInv, AnnounceInv DEF Goes
<1>2. CASE UNCHANGED vars
  <2>1. ConnsOK'
    BY <1>2, ConnsSame DEF vars, dbVars, Grows
  <2> QED BY <1>2, <2>1, ConnectionInv DEF vars, dbVars, RoomsInv
<1> QED BY <1>1, <1>2, RestartInv, RetireOrOthersInv DEF Next

LEMMA RoomsInvariant == Spec => []RoomsInv
BY InitRoomsInv, NextRoomsInv, PTL DEF Spec

\* Messages and participants belong to rooms that exist, entries, characters
\* and rooms have ids that were given out, although a handler looks a room up in
\* one statement, possibly in tables of a while ago, and uses it in another.
THEOREM RoomsTypeCorrect == Spec => []TypeOK
BY RoomsInvariant, TypesFromInv, PTL

\* Every message and every room is told once, and nothing that is not committed.
THEOREM ToldExactlyOnce == Spec => []BroadcastOnce
BY RoomsInvariant, BroadcastFromInv, PTL


-----------------------------------------------------------------------------
(* What a step may not do to a row. *)

\* Only a commit of a handler changes the tables, and only its thread goes on.
LEMMA OneWrites ==
  ASSUME RoomsInv, [Next]_vars
  PROVE  \/ db' = db
         \/ \E t \in Thread :
               /\ op[t].step = "write" /\ db' = Written(op[t])
               /\ op'[t].step # "write"
               /\ \A u \in Thread \ {t} : op'[u] = op[u]
<1>1. ASSUME NEW t \in Thread, WriteAndCommit(t)
      PROVE  /\ op[t].step = "write" /\ db' = Written(op[t])
             /\ op'[t].step # "write"
             /\ \A u \in Thread \ {t} : op'[u] = op[u]
  <2>1. op[t].step = "write" /\ db' = Written(op[t])
        /\ op' = [op EXCEPT ![t] = Announcement(op[t])]
    BY <1>1 DEF WriteAndCommit, Commit
  <2>2. Announcement(op[t]).step # "write"
    BY DEF Announcement, Idle
  <2> QED BY <2>1, <2>2 DEF RoomsInv, OpsOK
<1>2. ASSUME NEW t \in Thread, Starts(t) \/ Goes(t), ~WriteAndCommit(t)
      PROVE  db' = db
  BY <1>2 DEF Starts, Goes, CreateLore, UpdateLore, DeleteLore, ImportCharacter,
     UpdateCharacter, DeleteCharacter, CreateRoom, ArchiveRoom, SendMessage,
     AddParticipant, RemoveParticipant, ReadOnly, LooksUp, Submits, dbVars,
     WriteFails, Refused, Announce
<1>3. CASE Restart \/ Others \/ \E t \in Thread : RetireIdle(t)
  BY <1>3 DEF Restart, Others, Hold, Release, RetireIdle, Retire
<1>4. CASE UNCHANGED vars
  BY <1>4 DEF vars, dbVars
<1> QED BY <1>1, <1>2, <1>3, <1>4 DEF Next

\* Entries and characters appear where they are created.
LEMMA RowsAppear ==
  ASSUME RoomsInv, NEW o, o.step = "write", Held(o), NEW T, T = Written(o)
  PROVE  /\ DOMAIN T.lore \ DOMAIN db.lore
               \subseteq IF o.kind = "lore.create" THEN {o.id} ELSE {}
         /\ DOMAIN T.character \ DOMAIN db.character
               \subseteq IF o.kind = "character.create" THEN {o.id} ELSE {}
<1>1. Shaped(db) /\ o.kind \in Kind
  BY DEF RoomsInv, Held, Idle
<1>2. CASE o.kind \in {"lore.create", "lore.update", "lore.delete"}
  <2>1. CASE o.kind = "lore.create"
    BY <1>1, <2>1 DEF SetRow, Written, Shaped
  <2>2. CASE o.kind = "lore.update"
    BY <1>1, <2>2 DEF SetRow, Written, UpdatedLore, Shaped
  <2>3. CASE o.kind = "lore.delete"
    BY <1>1, <2>3 DEF DropRow, Written, Shaped
  <2> QED BY <1>2, <2>1, <2>2, <2>3
<1>3. CASE o.kind \in {"character.create", "character.update", "character.delete"}
  <2>1. CASE o.kind = "character.create"
    BY <1>1, <2>1 DEF SetRow, Written, Shaped
  <2>2. CASE o.kind = "character.update"
    BY <1>1, <2>2 DEF SetRow, Written, UpdatedCharacter, Shaped
  <2>3. CASE o.kind = "character.delete"
    BY <1>1, <2>3 DEF DropRow, Written, Shaped
  <2> QED BY <1>3, <2>1, <2>2, <2>3
<1>4. CASE o.kind \in {"room.create", "room.archive", "message.send",
                       "participant.add", "participant.remove"}
  <2>1. T.lore = db.lore /\ T.character = db.character
    BY <1>1, <1>4 DEF Written, Shaped
  <2> QED BY <2>1
<1> QED BY <1>1, <1>2, <1>3, <1>4 DEF Kind

\* A deleted entry or character stays deleted, also under an edit that looked it
\* up before.
THEOREM NoRevival == Spec => DeletedStaysDeleted
<1> DEFINE Appear ==
       /\ \A id \in DOMAIN db'.lore \ DOMAIN db.lore : Creating("lore.create", id)
       /\ \A id \in DOMAIN db'.character \ DOMAIN db.character :
             Creating("character.create", id)
<1>1. RoomsInv /\ [Next]_vars => Appear
  <2> SUFFICES ASSUME RoomsInv, [Next]_vars PROVE Appear
    OBVIOUS
  <2>1. CASE db' = db
    BY <2>1
  <2>2. ASSUME NEW t \in Thread, op[t].step = "write", db' = Written(op[t]),
               op'[t].step # "write"
        PROVE  Appear
    <3>1. PICK o : o = op[t]
      OBVIOUS
    <3>2. Held(o)
      BY <3>1 DEF RoomsInv, OpsOK
    <3>3. /\ DOMAIN db'.lore \ DOMAIN db.lore
                \subseteq IF o.kind = "lore.create" THEN {o.id} ELSE {}
          /\ DOMAIN db'.character \ DOMAIN db.character
                \subseteq IF o.kind = "character.create" THEN {o.id} ELSE {}
      <4>1. PICK T : T = Written(o) /\ T = db'
        BY <2>2, <3>1
      <4> QED BY <2>2, <3>1, <3>2, <4>1, RowsAppear
    <3>4. op'[t] # op[t]
      BY <2>2
    <3> QED BY <2>2, <3>1, <3>3, <3>4 DEF Creating
  <2> QED BY <2>1, <2>2, OneWrites
<1> HIDE DEF Appear
<1>2. RoomsInv /\ [Next]_vars => [Appear]_vars
  BY <1>1
<1>3. Spec => [][Appear]_vars
  BY <1>2, RoomsInvariant, PTL DEF Spec
<1> QED BY <1>3 DEF Appear, DeletedStaysDeleted

\* An edit writes the fields it names, and the rest of a lorebook entry only if
\* the entry is not the one it read.
THEOREM FieldsAreKept == Spec => EditsKeepOtherFields
<1> DEFINE Keeps(t) ==
       op[t].step = "write" /\ op'[t] = Idle =>
          /\ op[t].kind = "lore.update" /\ op[t].id \in DOMAIN db.lore =>
                \/ OthersKept(db.lore[op[t].id], db'.lore[op[t].id], op[t].edit)
                \/ op[t].seen # db.lore[op[t].id]
          /\ op[t].kind = "character.update" /\ op[t].id \in DOMAIN db.character =>
                OthersKept(db.character[op[t].id], db'.character[op[t].id],
                           op[t].edit)
<1>1. RoomsInv /\ [Next]_vars => \A t \in Thread : Keeps(t)
  <2> SUFFICES ASSUME RoomsInv, [Next]_vars, NEW t \in Thread,
                      op[t].step = "write", op'[t] = Idle
               PROVE  Keeps(t)
    OBVIOUS
  <2>1. CASE db' = db
    BY <2>1 DEF OthersKept
  <2>2. CASE db' = Written(op[t])
    <3>1. PICK o : o = op[t]
      OBVIOUS
    <3>2. Shaped(db)
      BY DEF RoomsInv
    <3>3. CASE o.kind = "lore.update" /\ o.id \in DOMAIN db.lore
      <4>1. db'.lore[o.id] = Edited(o.seen, o.edit)
        BY <2>2, <3>1, <3>2, <3>3 DEF Written, UpdatedLore, SetRow, Shaped
      <4> QED BY <3>1, <3>3, <4>1 DEF OthersKept, Edited
    <3>4. CASE o.kind = "character.update" /\ o.id \in DOMAIN db.character
      <4>1. db'.character[o.id] = Edited(db.character[o.id], o.edit)
        BY <2>2, <3>1, <3>2, <3>4 DEF Written, UpdatedCharacter, SetRow, Shaped
      <4> QED BY <3>1, <3>4, <4>1 DEF OthersKept, Edited
    <3> QED BY <3>1, <3>3, <3>4
  <2>3. op[t] # Idle
    BY DEF Idle
  <2> QED BY <2>1, <2>2, <2>3, OneWrites
<1> HIDE DEF Keeps
<1>2. RoomsInv /\ [Next]_vars => [\A t \in Thread : Keeps(t)]_vars
  BY <1>1
<1>3. Spec => [][\A t \in Thread : Keeps(t)]_vars
  BY <1>2, RoomsInvariant, PTL DEF Spec
<1> QED BY <1>3 DEF Keeps, EditsKeepOtherFields


-----------------------------------------------------------------------------
(* Matching a lorebook. Its loops are folds, functions on the sets of the    *)
(* indices that are done; a loop is taken apart into its turns first.        *)

\* Every set of natural numbers has a least one.
LEMMA LeastNumber ==
  ASSUME NEW T, T \subseteq Nat, T # {}
  PROVE  \E m \in T : \A k \in T : m <= k
<1>1. PICK m \in T : \A k \in T : <<k, m>> \notin OpToRel(<, Nat)
  BY NatLessThanWellFounded, WFMin
<1>2. \A k \in T : ~(k < m)
  BY <1>1 DEF OpToRel
<1> QED BY <1>2

\* The index a turn is at: the greatest of those that are done.
LEMMA GreatestPosition ==
  ASSUME NEW n \in Nat, NEW s \in SUBSET (1..n), s # {}
  PROVE  Max(s) \in s /\ \A k \in s : k <= Max(s)
<1>1. PICK m \in {n - k : k \in s} : \A j \in {n - k : k \in s} : m <= j
  <2> DEFINE T == {n - k : k \in s}
  <2>0. \A k \in s : n - k \in Nat
    OBVIOUS
  <2>1. T \subseteq Nat /\ T # {}
    BY <2>0
  <2> HIDE DEF T
  <2>2. \E m \in T : \A j \in T : m <= j
    BY <2>1, LeastNumber
  <2> QED BY <2>2 DEF T
<1>2. PICK x \in s : m = n - x
  BY <1>1
<1>3. \A k \in s : n - x <= n - k
  BY <1>1, <1>2
<1>4. \A k \in s : x >= k
  BY <1>3
<1>5. Max(s) \in s /\ \A k \in s : Max(s) >= k
  BY <1>4 DEF Max
<1> QED BY <1>5

\* What holds at first and is kept by each turn of a loop holds at the end.
LEMMA EveryTurn ==
  ASSUME NEW n \in Nat, NEW T, 0 \in T, \A k \in 1..n : k - 1 \in T => k \in T
  PROVE  n \in T
<1> DEFINE Missed == {k \in 0..n : k \notin T}
<1> SUFFICES ASSUME Missed # {} PROVE FALSE
  OBVIOUS
<1>1. PICK m \in Missed : \A k \in Missed : m <= k
  <2>1. Missed \subseteq Nat
    OBVIOUS
  <2> HIDE DEF Missed
  <2> QED BY <2>1, LeastNumber
<1>2. m \in 1..n /\ m - 1 \in 0..n /\ ~(m <= m - 1)
  BY <1>1
<1>3. m - 1 \in T
  BY <1>1, <1>2
<1> QED BY <1>1, <1>2, <1>3

\* The k-th turn takes the index k and leaves the turns before it.
LEMMA LastTurn ==
  ASSUME NEW n \in Nat, NEW k \in 1..n
  PROVE  Max(1..k) = k /\ (1..k) \ {k} = 1..(k - 1) /\ 1..k # {}
<1>1. 1..k \in SUBSET (1..n) /\ 1..k # {} /\ (1..k) \ {k} = 1..(k - 1)
  OBVIOUS
<1>2. PICK m : m = Max(1..k) /\ m \in 1..k /\ \A j \in 1..k : j <= m
  BY <1>1, GreatestPosition
<1> QED BY <1>1, <1>2

\* A loop over n elements of E with a state in S.
LoopData(n, S, base, E, seq, step) ==
  n \in Nat /\ base \in S /\ seq \in [1..n -> E] /\ step \in [S \X E -> S]

LoopOver(iter, n, S, base, seq, step) ==
  /\ iter \in [SUBSET (1..n) -> S]
  /\ \A s \in SUBSET (1..n) :
        iter[s] = IF s = {} THEN base ELSE step[<<iter[s \ {Max(s)}], seq[Max(s)]>>]

\* Every loop can be run: the function that a fold chooses exists.
LEMMA LoopExists ==
  ASSUME NEW n, NEW S, NEW base, NEW E, NEW seq, NEW step,
         LoopData(n, S, base, E, seq, step)
  PROVE  \E iter : LoopOver(iter, n, S, base, seq, step)
<1> USE DEF LoopData
<1> DEFINE Loop(f, m) ==
             \A s \in SUBSET (1..m) :
                f[s] = IF s = {} THEN base ELSE step[<<f[s \ {Max(s)}], seq[Max(s)]>>]
           T == {m \in 0..n : \E f \in [SUBSET (1..m) -> S] : Loop(f, m)}
<1>1. 0 \in T
  <2>1. PICK z \in 0..n : z = 0 /\ 1..z = {}
    OBVIOUS
  <2> DEFINE f == [s \in SUBSET (1..z) |-> base]
  <2>2. f \in [SUBSET (1..z) -> S] /\ Loop(f, z)
    BY <2>1
  <2>3. \E h \in [SUBSET (1..z) -> S] : Loop(h, z)
    <3> HIDE DEF f, Loop
    <3> QED BY <2>2
  <2>4. z \in T
    <3> HIDE DEF Loop
    <3> QED BY <2>3
  <2> HIDE DEF T
  <2> QED BY <2>1, <2>4
<1>2. ASSUME NEW m \in 1..n, m - 1 \in T
      PROVE  m \in T
  <2>1. PICK f \in [SUBSET (1..(m - 1)) -> S] : Loop(f, m - 1)
    BY <1>2
  <2> DEFINE g == [s \in SUBSET (1..m) |->
                     IF m \in s THEN step[<<f[s \ {m}], seq[m]>>] ELSE f[s]]
  <2>2. \A s \in SUBSET (1..m) : /\ m \in s => s \ {m} \in SUBSET (1..(m - 1))
                                 /\ m \notin s => s \in SUBSET (1..(m - 1))
    OBVIOUS
  <2>3. g \in [SUBSET (1..m) -> S]
    BY <2>1, <2>2
  <2>4. ASSUME NEW s \in SUBSET (1..m), s # {}
        PROVE  g[s] = step[<<g[s \ {Max(s)}], seq[Max(s)]>>]
    <3>1. Max(s) \in s /\ Max(s) \in 1..m /\ \A k \in s : k <= Max(s)
      <4>1. m \in Nat /\ s \in SUBSET (1..m)
        OBVIOUS
      <4>2. Max(s) \in s /\ \A k \in s : k <= Max(s)
        BY <2>4, <4>1, GreatestPosition
      <4> QED BY <4>1, <4>2
    <3>2. CASE m \in s
      <4>1. Max(s) = m
        <5>1. PICK x : x = Max(s)
          OBVIOUS
        <5> QED BY <3>1, <3>2, <5>1
      <4>2. g[s \ {m}] = f[s \ {m}]
        BY <2>2, <3>2
      <4> QED BY <3>2, <4>1, <4>2
    <3>3. CASE m \notin s
      <4>1. s \ {Max(s)} \in SUBSET (1..(m - 1)) /\ m \notin s \ {Max(s)}
        BY <2>2, <3>3
      <4>2. g[s \ {Max(s)}] = f[s \ {Max(s)}]
        BY <4>1
      <4>3. f[s] = step[<<f[s \ {Max(s)}], seq[Max(s)]>>]
        BY <2>1, <2>2, <2>4, <3>3
      <4> QED BY <3>3, <4>2, <4>3
    <3> QED BY <3>2, <3>3
  <2>5. g[{}] = base
    BY <2>1
  <2>6. Loop(g, m)
    BY <2>4, <2>5
  <2>7. \E h \in [SUBSET (1..m) -> S] : Loop(h, m)
    <3> HIDE DEF g, Loop
    <3> QED BY <2>3, <2>6
  <2> HIDE DEF Loop
  <2> QED BY <2>7
<1>3. n \in T
  <2> HIDE DEF T
  <2> QED BY <1>1, <1>2, EveryTurn
<1> QED BY <1>3 DEF LoopOver

-----------------------------------------------------------------------------
(* The loops of match_lorebook_entries, turn by turn. *)

FiredTurn(fired, e, said) == IF Fires(e, said) THEN Append(fired, e) ELSE fired

TrimTurn(kept, e, budget) ==
  IF Tokens(kept) + e.tokens <= budget THEN Append(kept, e) ELSE kept

LEMMA FiredLoop ==
  ASSUME NEW E, NEW rows \in Seq(E), NEW said
  PROVE  \E g : /\ g[0] = <<>>
                /\ \A k \in 1..Len(rows) : g[k] = FiredTurn(g[k - 1], rows[k], said)
                /\ Fired(rows, said) = g[Len(rows)]
<1> DEFINE Loop(iter) ==
             iter = [s \in SUBSET DOMAIN rows |->
                       IF s = {} THEN <<>>
                       ELSE IF Fires(rows[Max(s)], said)
                            THEN Append(iter[s \ {Max(s)}], rows[Max(s)])
                            ELSE iter[s \ {Max(s)}]]
           step == [p \in Seq(E) \X E |-> FiredTurn(p[1], p[2], said)]
<1>1. /\ Len(rows) \in Nat /\ DOMAIN rows = 1..Len(rows)
      /\ rows \in [1..Len(rows) -> E] /\ <<>> \in Seq(E)
  BY LenProperties
<1>2. step \in [Seq(E) \X E -> Seq(E)]
  BY AppendProperties DEF FiredTurn
<1>3. PICK iter : LoopOver(iter, Len(rows), Seq(E), <<>>, rows, step)
  <2>1. LoopData(Len(rows), Seq(E), <<>>, E, rows, step)
    BY <1>1, <1>2 DEF LoopData
  <2> HIDE DEF step
  <2> QED BY <2>1, LoopExists
<1>4. Loop(iter)
  <2>1. ASSUME NEW s \in SUBSET DOMAIN rows, s # {}
        PROVE  iter[s] = FiredTurn(iter[s \ {Max(s)}], rows[Max(s)], said)
    <3>1. iter[s \ {Max(s)}] \in Seq(E)
      BY <1>1, <1>3 DEF LoopOver
    <3>2. rows[Max(s)] \in E
      BY <1>1, <2>1, GreatestPosition
    <3>3. PICK a, b : a = iter[s \ {Max(s)}] /\ b = rows[Max(s)]
      OBVIOUS
    <3>4. step[<<a, b>>] = FiredTurn(a, b, said)
      BY <3>1, <3>2, <3>3
    <3>5. iter[s] = step[<<iter[s \ {Max(s)}], rows[Max(s)]>>]
      <4> HIDE DEF step
      <4> QED BY <1>1, <1>3, <2>1 DEF LoopOver
    <3> QED BY <3>3, <3>4, <3>5
  <2>2. iter[{}] = <<>>
    BY <1>1, <1>3 DEF LoopOver
  <2>3. iter = [s \in SUBSET DOMAIN rows |-> iter[s]]
    BY <1>1, <1>3 DEF LoopOver
  <2> QED BY <2>1, <2>2, <2>3 DEF FiredTurn
<1>5. PICK it : Loop(it) /\ Fired(rows, said) = it[DOMAIN rows]
  <2>1. Fired(rows, said) = (CHOOSE it : Loop(it))[DOMAIN rows]
    BY DEF Fired, FoldLeft, MapThenFoldSet
  <2> HIDE DEF Loop
  <2> QED BY <1>4, <2>1
<1> DEFINE g == [k \in 0..Len(rows) |-> it[1..k]]
<1>6. ASSUME NEW k \in 1..Len(rows)
      PROVE  g[k] = FiredTurn(g[k - 1], rows[k], said)
  <2>1. /\ Max(1..k) = k /\ (1..k) \ {k} = 1..(k - 1) /\ 1..k # {}
    BY <1>1, LastTurn
  <2>2. 1..k \in SUBSET DOMAIN rows
    BY <1>1
  <2>3. it[1..k] = FiredTurn(it[1..(k - 1)], rows[k], said)
    BY <1>5, <2>1, <2>2 DEF FiredTurn
  <2>4. k \in 0..Len(rows) /\ k - 1 \in 0..Len(rows)
    BY <1>1
  <2> QED BY <2>3, <2>4
<1>7. g[0] = <<>> /\ g[Len(rows)] = it[DOMAIN rows]
  <2>1. 1..0 = {} /\ {} \in SUBSET DOMAIN rows /\ 0 \in 0..Len(rows)
    BY <1>1
  <2>2. it[{}] = <<>>
    BY <1>5, <2>1
  <2> QED BY <1>1, <2>1, <2>2
<1> HIDE DEF g
<1> QED BY <1>5, <1>6, <1>7

\* Min, for the place of an entry.
LEMMA LeastOf ==
  ASSUME NEW T, T \subseteq Nat, T # {}
  PROVE  Min(T) \in T /\ \A k \in T : Min(T) <= k
<1>1. \E m \in T : \A k \in T : m <= k
  BY LeastNumber
<1> QED BY <1>1 DEF Min

\* The first elements of a sequence.
LEMMA FirstPart ==
  ASSUME NEW E, NEW q \in Seq(E), NEW c \in 0..Len(q)
  PROVE  /\ SubSeq(q, 1, c) \in Seq(E) /\ Len(SubSeq(q, 1, c)) = c
         /\ \A i \in 1..c : SubSeq(q, 1, c)[i] = q[i]
<1>1. Len(q) \in Nat /\ \A i \in 1..Len(q) : q[i] \in E
  BY LenProperties, ElementOfSeq
<1>2. PICK a : a = SubSeq(q, 1, c)
  OBVIOUS
<1>3. c \in Int /\ \A i \in 1..c : q[i] \in E
  BY <1>1
<1>4. /\ a \in Seq(E)
      /\ Len(a) = IF 1 <= c THEN c - 1 + 1 ELSE 0
      /\ \A i \in 1..(c - 1 + 1) : a[i] = q[1 + i - 1]
  BY <1>2, <1>3, SubSeqProperties
<1>5. ASSUME NEW i \in 1..c PROVE a[i] = q[i]
  <2>1. i \in 1..(c - 1 + 1) /\ 1 + i - 1 = i
    BY <1>3
  <2> QED BY <1>4, <2>1
<1> QED BY <1>1, <1>2, <1>4, <1>5

\* r is q with e at position p, before the first entry that it outranks.
PlacedAt(p, r, q, e) ==
  /\ p \in 1..(Len(q) + 1)
  /\ \A i \in 1..(p - 1) : ~Ranks(e, q[i])
  /\ p <= Len(q) => Ranks(e, q[p])
  /\ Len(r) = Len(q) + 1
  /\ \A i \in 1..(Len(q) + 1) :
        r[i] = IF i < p THEN q[i] ELSE IF i = p THEN e ELSE q[i - 1]

\* An entry goes before the first one that it outranks.
LEMMA InsertedAt ==
  ASSUME NEW E, NEW q \in Seq(E), NEW e \in E
  PROVE  /\ Inserted(q, e) \in Seq(E)
         /\ \E p : PlacedAt(p, Inserted(q, e), q, e)
<1> DEFINE T == {i \in DOMAIN q : Ranks(e, q[i])} \cup {Len(q) + 1}
<1>1. Len(q) \in Nat /\ DOMAIN q = 1..Len(q) /\ \A i \in 1..Len(q) : q[i] \in E
  BY LenProperties, ElementOfSeq
<1>2. PICK p : p = Min(T) /\ p \in T /\ \A k \in T : p <= k
  <2>1. T \subseteq Nat /\ T # {}
    BY <1>1
  <2> HIDE DEF T
  <2> QED BY <2>1, LeastOf
<1>3. p \in 1..(Len(q) + 1)
  BY <1>1, <1>2
<1>4. /\ \A i \in 1..(p - 1) : ~Ranks(e, q[i])
      /\ p <= Len(q) => Ranks(e, q[p])
  <2>1. ASSUME NEW i \in 1..(p - 1), Ranks(e, q[i])
        PROVE  FALSE
    <3>1. i \in T
      BY <1>1, <1>3, <2>1
    <3>2. p <= i
      BY <1>2, <3>1
    <3> QED BY <1>3, <3>2
  <2>2. p <= Len(q) => Ranks(e, q[p])
    BY <1>1, <1>2
  <2> QED BY <2>1, <2>2
<1>5. Inserted(q, e) = SubSeq(q, 1, p - 1) \o <<e>> \o SubSeq(q, p, Len(q))
  BY <1>2 DEF Inserted, InsertAt
<1>6. PICK a, b, one, c, r :
         /\ a = SubSeq(q, 1, p - 1) /\ b = SubSeq(q, p, Len(q))
         /\ one = <<e>> /\ c = a \o one /\ r = c \o b
  OBVIOUS
<1>7. PICK n \in Nat : n = Len(q)
  BY <1>1
<1>a. /\ a \in Seq(E) /\ Len(a) = p - 1
      /\ \A i \in 1..(p - 1) : a[i] = q[i]
  <2>1. PICK m \in 0..Len(q) : m = p - 1
    BY <1>1, <1>3
  <2>2. a = SubSeq(q, 1, m)
    BY <1>6, <2>1
  <2>3. /\ a \in Seq(E) /\ Len(a) = m
        /\ \A i \in 1..m : a[i] = q[i]
    BY <2>2, FirstPart
  <2> QED BY <2>1, <2>3
<1>b. /\ b \in Seq(E) /\ Len(b) = n + 1 - p
      /\ \A i \in 1..(n + 1 - p) : b[i] = q[p + i - 1]
  <2>1. p \in Int /\ n \in Int /\ b = SubSeq(q, p, n)
    BY <1>3, <1>6, <1>7
  <2>2. \A i \in p..n : q[i] \in E
    BY <1>1, <1>3, <1>7
  <2>3. /\ b \in Seq(E)
        /\ Len(b) = IF p <= n THEN n - p + 1 ELSE 0
        /\ \A i \in 1..(n - p + 1) : b[i] = q[p + i - 1]
    BY <2>1, <2>2, SubSeqProperties
  <2>4. Len(b) = n + 1 - p /\ n - p + 1 = n + 1 - p
    BY <1>3, <1>7, <2>3
  <2> QED BY <2>3, <2>4
<1>8. /\ c \in Seq(E) /\ Len(c) = p
      /\ \A i \in 1..p : c[i] = IF i < p THEN q[i] ELSE e
  <2>1. one \in Seq(E) /\ Len(one) = 1 /\ one[1] = e
    BY <1>6
  <2>2. /\ c \in Seq(E) /\ Len(c) = Len(a) + Len(one)
        /\ \A i \in 1..(Len(a) + Len(one)) :
              c[i] = IF i <= Len(a) THEN a[i] ELSE one[i - Len(a)]
    BY <1>6, <1>a, <2>1, ConcatProperties
  <2>3. Len(a) + Len(one) = p
    BY <1>3, <1>a, <2>1
  <2>4. ASSUME NEW i \in 1..p PROVE c[i] = IF i < p THEN q[i] ELSE e
    <3>1. c[i] = IF i <= p - 1 THEN a[i] ELSE one[i - (p - 1)]
      BY <1>a, <2>2, <2>3
    <3>2. i < p => i <= p - 1 /\ i \in 1..(p - 1)
      BY <1>3
    <3>3. ~(i < p) => i - (p - 1) = 1 /\ ~(i <= p - 1)
      BY <1>3
    <3> QED BY <1>a, <2>1, <3>1, <3>2, <3>3
  <2> QED BY <2>2, <2>3, <2>4
<1>9. /\ r \in Seq(E) /\ Len(r) = Len(q) + 1
      /\ \A i \in 1..(Len(q) + 1) :
            r[i] = IF i <= p THEN c[i] ELSE b[i - p]
  <2>1. /\ r \in Seq(E) /\ Len(r) = Len(c) + Len(b)
        /\ \A i \in 1..(Len(c) + Len(b)) :
              r[i] = IF i <= Len(c) THEN c[i] ELSE b[i - Len(c)]
    <3>1. c \in Seq(E) /\ b \in Seq(E) /\ r = c \o b
      BY <1>6, <1>8, <1>b
    <3> QED BY <3>1, ConcatProperties
  <2>2. Len(c) + Len(b) = Len(q) + 1 /\ Len(c) = p
    BY <1>3, <1>7, <1>8, <1>b
  <2> QED BY <2>1, <2>2
<1>10. ASSUME NEW i \in 1..(Len(q) + 1)
       PROVE  r[i] = IF i < p THEN q[i] ELSE IF i = p THEN e ELSE q[i - 1]
  <2>1. CASE i <= p
    <3>1. i \in 1..p /\ (i < p \/ i = p) /\ ~(p < p)
      BY <1>3, <2>1
    <3>2. r[i] = c[i]
      BY <1>9, <2>1
    <3> QED BY <1>8, <3>1, <3>2
  <2>2. CASE i > p
    <3>1. /\ i - p \in 1..(n + 1 - p) /\ p + (i - p) - 1 = i - 1
          /\ ~(i <= p) /\ ~(i < p) /\ i # p
      BY <1>3, <1>7, <2>2
    <3>2. b[i - p] = q[i - 1]
      BY <1>b, <3>1
    <3> QED BY <1>9, <3>1, <3>2
  <2> QED BY <1>3, <2>1, <2>2
<1>11. Inserted(q, e) = r
  BY <1>5, <1>6
<1>12. PlacedAt(p, r, q, e)
  BY <1>3, <1>4, <1>9, <1>10 DEF PlacedAt
<1> QED BY <1>9, <1>11, <1>12

LEMMA InsertedIsSeq ==
  ASSUME NEW E
  PROVE  \A q \in Seq(E), e \in E : Inserted(q, e) \in Seq(E)
BY InsertedAt

LEMMA SortedLoop ==
  ASSUME NEW E, NEW rows \in Seq(E)
  PROVE  \E g : /\ g[0] = <<>>
                /\ \A k \in 1..Len(rows) : g[k] = Inserted(g[k - 1], rows[k])
                /\ Sorted(rows) = g[Len(rows)]
<1> DEFINE Loop(iter) ==
             iter = [s \in SUBSET DOMAIN rows |->
                       IF s = {} THEN <<>>
                       ELSE Inserted(iter[s \ {Max(s)}], rows[Max(s)])]
           step == [p \in Seq(E) \X E |-> Inserted(p[1], p[2])]
<1>1. /\ Len(rows) \in Nat /\ DOMAIN rows = 1..Len(rows)
      /\ rows \in [1..Len(rows) -> E] /\ <<>> \in Seq(E)
  BY LenProperties
<1>2. step \in [Seq(E) \X E -> Seq(E)]
  BY InsertedIsSeq
<1>3. PICK iter : LoopOver(iter, Len(rows), Seq(E), <<>>, rows, step)
  <2>1. LoopData(Len(rows), Seq(E), <<>>, E, rows, step)
    BY <1>1, <1>2 DEF LoopData
  <2> HIDE DEF step
  <2> QED BY <2>1, LoopExists
<1>4. Loop(iter)
  <2>1. ASSUME NEW s \in SUBSET DOMAIN rows, s # {}
        PROVE  iter[s] = Inserted(iter[s \ {Max(s)}], rows[Max(s)])
    <3>1. iter[s \ {Max(s)}] \in Seq(E)
      BY <1>1, <1>3 DEF LoopOver
    <3>2. rows[Max(s)] \in E
      BY <1>1, <2>1, GreatestPosition
    <3>3. PICK a, b : a = iter[s \ {Max(s)}] /\ b = rows[Max(s)]
      OBVIOUS
    <3>4. step[<<a, b>>] = Inserted(a, b)
      BY <3>1, <3>2, <3>3
    <3>5. iter[s] = step[<<iter[s \ {Max(s)}], rows[Max(s)]>>]
      <4> HIDE DEF step
      <4> QED BY <1>1, <1>3, <2>1 DEF LoopOver
    <3> QED BY <3>3, <3>4, <3>5
  <2>2. iter[{}] = <<>>
    BY <1>1, <1>3 DEF LoopOver
  <2>3. iter = [s \in SUBSET DOMAIN rows |-> iter[s]]
    BY <1>1, <1>3 DEF LoopOver
  <2> QED BY <2>1, <2>2, <2>3
<1>5. PICK it : Loop(it) /\ Sorted(rows) = it[DOMAIN rows]
  <2>1. Sorted(rows) = (CHOOSE it : Loop(it))[DOMAIN rows]
    BY DEF Sorted, FoldLeft, MapThenFoldSet
  <2> HIDE DEF Loop
  <2> QED BY <1>4, <2>1
<1> DEFINE g == [k \in 0..Len(rows) |-> it[1..k]]
<1>6. ASSUME NEW k \in 1..Len(rows)
      PROVE  g[k] = Inserted(g[k - 1], rows[k])
  <2>1. /\ Max(1..k) = k /\ (1..k) \ {k} = 1..(k - 1) /\ 1..k # {}
    BY <1>1, LastTurn
  <2>2. 1..k \in SUBSET DOMAIN rows
    BY <1>1
  <2>3. it[1..k] = Inserted(it[1..(k - 1)], rows[k])
    BY <1>5, <2>1, <2>2
  <2>4. k \in 0..Len(rows) /\ k - 1 \in 0..Len(rows)
    BY <1>1
  <2> QED BY <2>3, <2>4
<1>7. g[0] = <<>> /\ g[Len(rows)] = it[DOMAIN rows]
  <2>1. 1..0 = {} /\ {} \in SUBSET DOMAIN rows /\ 0 \in 0..Len(rows)
    BY <1>1
  <2>2. it[{}] = <<>>
    BY <1>5, <2>1
  <2> QED BY <1>1, <2>1, <2>2
<1> HIDE DEF g
<1> QED BY <1>5, <1>6, <1>7

LEMMA TrimmedLoop ==
  ASSUME NEW E, NEW rows \in Seq(E), NEW budget
  PROVE  \E g : /\ g[0] = <<>>
                /\ \A k \in 1..Len(rows) : g[k] = TrimTurn(g[k - 1], rows[k], budget)
                /\ Trimmed(rows, budget) = g[Len(rows)]
<1> DEFINE Loop(iter) ==
             iter = [s \in SUBSET DOMAIN rows |->
                       IF s = {} THEN <<>>
                       ELSE IF Tokens(iter[s \ {Max(s)}]) + rows[Max(s)].tokens <= budget
                            THEN Append(iter[s \ {Max(s)}], rows[Max(s)])
                            ELSE iter[s \ {Max(s)}]]
           step == [p \in Seq(E) \X E |-> TrimTurn(p[1], p[2], budget)]
<1>1. /\ Len(rows) \in Nat /\ DOMAIN rows = 1..Len(rows)
      /\ rows \in [1..Len(rows) -> E] /\ <<>> \in Seq(E)
  BY LenProperties
<1>2. step \in [Seq(E) \X E -> Seq(E)]
  BY AppendProperties DEF TrimTurn
<1>3. PICK iter : LoopOver(iter, Len(rows), Seq(E), <<>>, rows, step)
  <2>1. LoopData(Len(rows), Seq(E), <<>>, E, rows, step)
    BY <1>1, <1>2 DEF LoopData
  <2> HIDE DEF step
  <2> QED BY <2>1, LoopExists
<1>4. Loop(iter)
  <2>1. ASSUME NEW s \in SUBSET DOMAIN rows, s # {}
        PROVE  iter[s] = TrimTurn(iter[s \ {Max(s)}], rows[Max(s)], budget)
    <3>1. iter[s \ {Max(s)}] \in Seq(E)
      BY <1>1, <1>3 DEF LoopOver
    <3>2. rows[Max(s)] \in E
      BY <1>1, <2>1, GreatestPosition
    <3>3. PICK a, b : a = iter[s \ {Max(s)}] /\ b = rows[Max(s)]
      OBVIOUS
    <3>4. step[<<a, b>>] = TrimTurn(a, b, budget)
      BY <3>1, <3>2, <3>3
    <3>5. iter[s] = step[<<iter[s \ {Max(s)}], rows[Max(s)]>>]
      <4> HIDE DEF step
      <4> QED BY <1>1, <1>3, <2>1 DEF LoopOver
    <3> QED BY <3>3, <3>4, <3>5
  <2>2. iter[{}] = <<>>
    BY <1>1, <1>3 DEF LoopOver
  <2>3. iter = [s \in SUBSET DOMAIN rows |-> iter[s]]
    BY <1>1, <1>3 DEF LoopOver
  <2> QED BY <2>1, <2>2, <2>3 DEF TrimTurn
<1>5. PICK it : Loop(it) /\ Trimmed(rows, budget) = it[DOMAIN rows]
  <2>1. Trimmed(rows, budget) = (CHOOSE it : Loop(it))[DOMAIN rows]
    BY DEF Trimmed, FoldLeft, MapThenFoldSet
  <2> HIDE DEF Loop
  <2> QED BY <1>4, <2>1
<1> DEFINE g == [k \in 0..Len(rows) |-> it[1..k]]
<1>6. ASSUME NEW k \in 1..Len(rows)
      PROVE  g[k] = TrimTurn(g[k - 1], rows[k], budget)
  <2>1. /\ Max(1..k) = k /\ (1..k) \ {k} = 1..(k - 1) /\ 1..k # {}
    BY <1>1, LastTurn
  <2>2. 1..k \in SUBSET DOMAIN rows
    BY <1>1
  <2>3. it[1..k] = TrimTurn(it[1..(k - 1)], rows[k], budget)
    BY <1>5, <2>1, <2>2 DEF TrimTurn
  <2>4. k \in 0..Len(rows) /\ k - 1 \in 0..Len(rows)
    BY <1>1
  <2> QED BY <2>3, <2>4
<1>7. g[0] = <<>> /\ g[Len(rows)] = it[DOMAIN rows]
  <2>1. 1..0 = {} /\ {} \in SUBSET DOMAIN rows /\ 0 \in 0..Len(rows)
    BY <1>1
  <2>2. it[{}] = <<>>
    BY <1>5, <2>1
  <2> QED BY <1>1, <2>1, <2>2
<1> HIDE DEF g
<1> QED BY <1>5, <1>6, <1>7

-----------------------------------------------------------------------------
(* The order. *)

Rankable(E) == \A e \in E : e.priority \in Int /\ e.id \in Nat

Ranked(q) == \A i, j \in DOMAIN q : i < j => Ranks(q[i], q[j])

Distinct(q) == \A i, j \in DOMAIN q : i # j => q[i].id # q[j].id

LEMMA RanksIsOrder ==
  ASSUME NEW E, Rankable(E), NEW e \in E, NEW f \in E, NEW g \in E
  PROVE  /\ ~Ranks(e, e)
         /\ Ranks(e, f) /\ Ranks(f, g) => Ranks(e, g)
         /\ e.id # f.id => Ranks(e, f) \/ Ranks(f, e)
         /\ Ranks(e, f) => ~Ranks(f, e)
BY DEF Rankable, Ranks

\* An entry with an id of its own takes its place among ranked ones.
LEMMA InsertedRanked ==
  ASSUME NEW E, Rankable(E), NEW q \in Seq(E), NEW e \in E, Ranked(q),
         \A i \in DOMAIN q : q[i].id # e.id
  PROVE  /\ Inserted(q, e) \in Seq(E)
         /\ Ranked(Inserted(q, e))
         /\ Range(Inserted(q, e)) = Range(q) \cup {e}
<1>1. /\ Len(q) \in Nat /\ DOMAIN q = 1..Len(q) /\ \A i \in 1..Len(q) : q[i] \in E
  BY LenProperties, ElementOfSeq
<1>2. PICK n \in Nat : n = Len(q)
  BY <1>1
<1>3. PICK p, r :
         /\ p \in 1..(n + 1)
         /\ \A i \in 1..(p - 1) : ~Ranks(e, q[i])
         /\ p <= n => Ranks(e, q[p])
         /\ r = Inserted(q, e) /\ r \in Seq(E) /\ Len(r) = n + 1
         /\ \A i \in 1..(n + 1) : /\ i < p => r[i] = q[i]
                                  /\ i = p => r[i] = e
                                  /\ ~(i < p) /\ i # p => r[i] = q[i - 1]
  <2>1. PICK r, p : r = Inserted(q, e) /\ r \in Seq(E) /\ PlacedAt(p, r, q, e)
    BY InsertedAt
  <2> QED BY <1>2, <2>1 DEF PlacedAt
<1>4. DOMAIN r = 1..(n + 1)
  BY <1>3, LenProperties
<1>5. \A i \in 1..(p - 1) : Ranks(q[i], e)
  <2>1. ASSUME NEW i \in 1..(p - 1) PROVE Ranks(q[i], e)
    <3>1. i \in 1..n /\ q[i] \in E /\ q[i].id # e.id
      BY <1>1, <1>2, <1>3
    <3> QED BY <1>3, <3>1, RanksIsOrder
  <2> QED BY <2>1
<1>6. \A i \in p..n : Ranks(e, q[i])
  <2>1. ASSUME NEW i \in p..n PROVE Ranks(e, q[i])
    <3>1. i \in 1..n /\ p \in 1..n /\ (i = p \/ p < i) /\ q[i] \in E /\ q[p] \in E
      BY <1>1, <1>2, <1>3
    <3>2. Ranks(e, q[p])
      BY <1>3, <3>1
    <3>3. p < i => Ranks(q[p], q[i])
      BY <1>1, <1>2, <3>1 DEF Ranked
    <3> QED BY <3>1, <3>2, <3>3, RanksIsOrder
  <2> QED BY <2>1
<1>7. ASSUME NEW i \in 1..(n + 1), NEW j \in 1..(n + 1), i < j
      PROVE  Ranks(r[i], r[j])
  <2>1. CASE j < p
    <3>1. i < p /\ i \in 1..n /\ j \in 1..n
      BY <1>3, <1>7, <2>1
    <3> QED BY <1>1, <1>2, <1>3, <1>7, <2>1, <3>1 DEF Ranked
  <2>2. CASE j = p
    <3>1. i < p /\ i \in 1..(p - 1) /\ ~(j < p)
      BY <1>3, <1>7, <2>2
    <3>2. r[i] = q[i] /\ r[j] = e
      BY <1>3, <2>2, <3>1
    <3> QED BY <1>5, <3>1, <3>2
  <2>3. CASE j > p
    <3>1. ~(j < p) /\ j # p /\ j - 1 \in p..n /\ j - 1 \in 1..n
      BY <1>3, <2>3
    <3>2. r[j] = q[j - 1] /\ Ranks(e, q[j - 1]) /\ q[j - 1] \in E
      BY <1>1, <1>2, <1>3, <1>6, <3>1
    <3>3. CASE i < p
      <4>1. i \in 1..(p - 1) /\ i \in 1..n
        BY <1>3, <3>3
      <4>2. r[i] = q[i] /\ Ranks(q[i], e) /\ q[i] \in E
        BY <1>1, <1>2, <1>3, <1>5, <3>3, <4>1
      <4> QED BY <3>2, <4>2, RanksIsOrder
    <3>4. CASE i = p
      <4>1. r[i] = e
        BY <1>3, <3>4
      <4> QED BY <3>2, <4>1
    <3>5. CASE i > p
      <4>1. ~(i < p) /\ i # p /\ i - 1 \in 1..n /\ i - 1 < j - 1
        BY <1>3, <1>7, <3>5
      <4>2. r[i] = q[i - 1]
        BY <1>3, <4>1
      <4> QED BY <1>1, <1>2, <3>1, <3>2, <4>1, <4>2 DEF Ranked
    <3> QED BY <1>3, <3>3, <3>4, <3>5
  <2> QED BY <1>3, <2>1, <2>2, <2>3
<1>8. Range(r) = Range(q) \cup {e}
  <2>1. ASSUME NEW i \in 1..(n + 1) PROVE r[i] \in Range(q) \cup {e}
    <3>1. i > p => ~(i < p) /\ i # p /\ i - 1 \in 1..n
      BY <1>3
    <3>2. i < p => i \in 1..n
      BY <1>3
    <3>3. i < p \/ i = p \/ i > p
      BY <1>3
    <3> QED BY <1>1, <1>2, <1>3, <3>1, <3>2, <3>3 DEF Range
  <2>2. ASSUME NEW i \in 1..n PROVE \E j \in 1..(n + 1) : r[j] = q[i]
    <3>1. CASE i < p
      BY <1>3, <3>1
    <3>2. CASE ~(i < p)
      <4>1. i + 1 \in 1..(n + 1) /\ ~(i + 1 < p) /\ i + 1 # p /\ (i + 1) - 1 = i
        BY <1>3, <3>2
      <4> QED BY <1>3, <4>1
    <3> QED BY <3>1, <3>2
  <2>3. r[p] = e
    BY <1>3
  <2>4. Range(r) \subseteq Range(q) \cup {e}
    BY <1>4, <2>1 DEF Range
  <2>5. Range(q) \subseteq Range(r)
    BY <1>1, <1>2, <1>4, <2>2 DEF Range
  <2>6. e \in Range(r)
    BY <1>3, <1>4, <2>3 DEF Range
  <2> QED BY <2>4, <2>5, <2>6
<1>9. Ranked(r)
  BY <1>4, <1>7 DEF Ranked
<1> QED BY <1>3, <1>8, <1>9

\* The entries that fire, each once.
LEMMA FiredEntries ==
  ASSUME NEW E, NEW rows \in Seq(E), NEW said, Distinct(rows)
  PROVE  /\ Fired(rows, said) \in Seq(E)
         /\ Distinct(Fired(rows, said))
         /\ Range(Fired(rows, said)) = {e \in Range(rows) : Fires(e, said)}
<1>1. /\ Len(rows) \in Nat /\ DOMAIN rows = 1..Len(rows)
      /\ \A i \in 1..Len(rows) : rows[i] \in E
  BY LenProperties, ElementOfSeq
<1>2. PICK g : /\ g[0] = <<>>
               /\ \A k \in 1..Len(rows) : g[k] = FiredTurn(g[k - 1], rows[k], said)
               /\ Fired(rows, said) = g[Len(rows)]
  BY FiredLoop
<1> DEFINE OK(k) ==
             /\ g[k] \in Seq(E)
             /\ Distinct(g[k])
             /\ Range(g[k]) = {e \in {rows[i] : i \in 1..k} : Fires(e, said)}
           T == {k \in 0..Len(rows) : OK(k)}
<1>3. 0 \in T
  <2>1. PICK q : q = g[0] /\ q = <<>>
    BY <1>2
  <2>2. q \in Seq(E) /\ Distinct(q) /\ Range(q) = {} /\ 1..0 = {}
    BY <2>1 DEF Distinct, Range
  <2>3. OK(0)
    BY <2>1, <2>2
  <2> HIDE DEF OK
  <2> QED BY <1>1, <2>3
<1>4. ASSUME NEW k \in 1..Len(rows), k - 1 \in T
      PROVE  k \in T
  <2>1. PICK q, e : q = g[k - 1] /\ e = rows[k]
    OBVIOUS
  <2>2. /\ q \in Seq(E) /\ Distinct(q) /\ e \in E
        /\ Range(q) = {f \in {rows[i] : i \in 1..(k - 1)} : Fires(f, said)}
    BY <1>1, <1>4, <2>1
  <2>3. {rows[i] : i \in 1..k} = {rows[i] : i \in 1..(k - 1)} \cup {e}
    BY <1>1, <2>1
  <2>4. ASSUME ~Fires(e, said)
        PROVE  OK(k)
    <3>1. q = g[k]
      BY <1>2, <2>1, <2>4 DEF FiredTurn
    <3>2. Range(q) = {f \in {rows[i] : i \in 1..k} : Fires(f, said)}
      BY <2>2, <2>3, <2>4
    <3> QED BY <2>2, <3>1, <3>2
  <2>5. ASSUME Fires(e, said)
        PROVE  OK(k)
    <3>1. PICK r : r = g[k] /\ r = Append(q, e)
      BY <1>2, <2>1, <2>5 DEF FiredTurn
    <3>2. /\ r \in Seq(E) /\ Len(q) \in Nat /\ DOMAIN q = 1..Len(q)
          /\ DOMAIN r = 1..(Len(q) + 1)
          /\ \A i \in 1..Len(q) : r[i] = q[i]
          /\ r[Len(q) + 1] = e
      BY <2>2, <3>1, AppendProperties, LenProperties
    <3>3. ASSUME NEW i \in DOMAIN q
          PROVE  q[i].id # e.id
      <4>1. q[i] \in Range(q)
        BY DEF Range
      <4>2. PICK j \in 1..(k - 1) : q[i] = rows[j]
        BY <2>2, <4>1
      <4>3. j \in DOMAIN rows /\ k \in DOMAIN rows /\ j # k
        BY <1>1
      <4> QED BY <2>1, <4>2, <4>3 DEF Distinct
    <3>4. Distinct(r)
      <4>1. ASSUME NEW i \in DOMAIN r, NEW j \in DOMAIN r, i # j
            PROVE  r[i].id # r[j].id
        <5>1. (i \in DOMAIN q \/ i = Len(q) + 1) /\ (j \in DOMAIN q \/ j = Len(q) + 1)
          BY <3>2
        <5> QED BY <2>2, <3>2, <3>3, <4>1, <5>1 DEF Distinct
      <4> QED BY <4>1 DEF Distinct
    <3>5. Range(r) = Range(q) \cup {e}
      <4>1. DOMAIN r = DOMAIN q \cup {Len(q) + 1}
        BY <3>2
      <4> QED BY <3>2, <4>1 DEF Range
    <3>6. Range(r) = {f \in {rows[i] : i \in 1..k} : Fires(f, said)}
      BY <2>2, <2>3, <2>5, <3>5
    <3> QED BY <3>1, <3>2, <3>4, <3>6
  <2>6. OK(k)
    BY <2>4, <2>5
  <2> HIDE DEF OK
  <2> QED BY <1>1, <2>6
<1>5. Len(rows) \in T
  <2> HIDE DEF T
  <2> QED BY <1>1, <1>3, <1>4, EveryTurn
<1>6. {rows[i] : i \in 1..Len(rows)} = Range(rows)
  BY <1>1 DEF Range
<1> QED BY <1>2, <1>5, <1>6

\* Sorting keeps the entries and puts them in the order of their rank.
LEMMA SortedEntries ==
  ASSUME NEW E, Rankable(E), NEW rows \in Seq(E), Distinct(rows)
  PROVE  /\ Sorted(rows) \in Seq(E)
         /\ Ranked(Sorted(rows))
         /\ Range(Sorted(rows)) = Range(rows)
<1>1. /\ Len(rows) \in Nat /\ DOMAIN rows = 1..Len(rows)
      /\ \A i \in 1..Len(rows) : rows[i] \in E
  BY LenProperties, ElementOfSeq
<1>2. PICK g : /\ g[0] = <<>>
               /\ \A k \in 1..Len(rows) : g[k] = Inserted(g[k - 1], rows[k])
               /\ Sorted(rows) = g[Len(rows)]
  BY SortedLoop
<1> DEFINE OK(k) ==
             /\ g[k] \in Seq(E)
             /\ Ranked(g[k])
             /\ Range(g[k]) = {rows[i] : i \in 1..k}
           T == {k \in 0..Len(rows) : OK(k)}
<1>3. 0 \in T
  <2>1. PICK q : q = g[0] /\ q = <<>>
    BY <1>2
  <2>2. q \in Seq(E) /\ Ranked(q) /\ Range(q) = {} /\ 1..0 = {}
    BY <2>1 DEF Ranked, Range
  <2>3. OK(0)
    BY <2>1, <2>2
  <2> HIDE DEF OK
  <2> QED BY <1>1, <2>3
<1>4. ASSUME NEW k \in 1..Len(rows), k - 1 \in T
      PROVE  k \in T
  <2>1. PICK q, e : q = g[k - 1] /\ e = rows[k]
    OBVIOUS
  <2>2. /\ q \in Seq(E) /\ Ranked(q) /\ e \in E
        /\ Range(q) = {rows[i] : i \in 1..(k - 1)}
    BY <1>1, <1>4, <2>1
  <2>3. {rows[i] : i \in 1..k} = {rows[i] : i \in 1..(k - 1)} \cup {e}
    BY <1>1, <2>1
  <2>4. ASSUME NEW i \in DOMAIN q
        PROVE  q[i].id # e.id
    <3>1. q[i] \in Range(q)
      BY DEF Range
    <3>2. PICK j \in 1..(k - 1) : q[i] = rows[j]
      BY <2>2, <3>1
    <3>3. j \in DOMAIN rows /\ k \in DOMAIN rows /\ j # k
      BY <1>1
    <3> QED BY <2>1, <3>2, <3>3 DEF Distinct
  <2>5. PICK r : r = g[k] /\ r = Inserted(q, e)
    BY <1>2, <2>1
  <2>6. r \in Seq(E) /\ Ranked(r) /\ Range(r) = Range(q) \cup {e}
    BY <2>2, <2>4, <2>5, InsertedRanked
  <2>7. OK(k)
    BY <2>2, <2>3, <2>5, <2>6
  <2> HIDE DEF OK
  <2> QED BY <1>1, <2>7
<1>5. Len(rows) \in T
  <2> HIDE DEF T
  <2> QED BY <1>1, <1>3, <1>4, EveryTurn
<1>6. {rows[i] : i \in 1..Len(rows)} = Range(rows)
  BY <1>1 DEF Range
<1> QED BY <1>2, <1>5, <1>6

-----------------------------------------------------------------------------
(* The cut. *)

\* The property's order is the code's.
LEMMA BeforeIsRanks == \A e, f : Before(e, f) <=> Ranks(e, f)
BY DEF Before, Ranks

\* What is ahead of an entry does not change by one that ranks behind it.
LEMMA AheadKept ==
  ASSUME NEW E, NEW q \in Seq(E), NEW e \in E, NEW f, ~Before(e, f)
  PROVE  Ahead(f, Append(q, e)) = Ahead(f, q)
<1>1. PICK r : r = Append(q, e)
  OBVIOUS
<1>2. /\ r \in Seq(E) /\ Len(q) \in Nat /\ Len(r) = Len(q) + 1
      /\ DOMAIN q = 1..Len(q) /\ DOMAIN r = 1..(Len(q) + 1)
      /\ \A i \in 1..Len(q) : r[i] = q[i]
      /\ r[Len(q) + 1] = e
  BY <1>1, AppendProperties, LenProperties
<1>3. PICK I : I = {i \in DOMAIN q : Before(q[i], f)}
  OBVIOUS
<1>4. {i \in DOMAIN r : Before(r[i], f)} = I
  BY <1>2, <1>3
<1>5. PICK c : c = Cardinality(I) /\ c \in 0..Len(q)
  <2>1. IsFiniteSet(1..Len(q)) /\ Cardinality(1..Len(q)) = Len(q)
    <3>1. PICK n \in Nat : n = Len(q)
      BY <1>2
    <3>2. IsFiniteSet(1..n) /\ Cardinality(1..n) = n
      BY FS_Interval
    <3> QED BY <3>1, <3>2
  <2>2. IsFiniteSet(I) /\ Cardinality(I) <= Len(q)
    BY <1>2, <1>3, <2>1, FS_Subset
  <2>3. Cardinality(I) \in Nat
    BY <2>2, FS_CardinalityType
  <2> QED BY <1>2, <2>2, <2>3
<1>6. SubSeq(r, 1, c) = SubSeq(q, 1, c)
  <2>1. PICK x, y : x = SubSeq(r, 1, c) /\ y = SubSeq(q, 1, c)
    OBVIOUS
  <2>2. y \in Seq(E) /\ Len(y) = c /\ \A i \in 1..c : y[i] = q[i]
    BY <1>5, <2>1, FirstPart
  <2>3. c \in 0..Len(r)
    BY <1>2, <1>5
  <2>4. x \in Seq(E) /\ Len(x) = c /\ \A i \in 1..c : x[i] = r[i]
    BY <1>2, <2>1, <2>3, FirstPart
  <2>5. \A i \in 1..c : x[i] = y[i]
    BY <1>2, <1>5, <2>2, <2>4
  <2> QED BY <2>1, <2>2, <2>4, <2>5, SeqEqual
<1> QED BY <1>1, <1>3, <1>4, <1>5, <1>6 DEF Ahead

\* Everything is ahead of an entry that ranks behind everything.
LEMMA AheadOfLast ==
  ASSUME NEW E, NEW q \in Seq(E), NEW e, \A i \in DOMAIN q : Before(q[i], e)
  PROVE  Ahead(e, q) = q
<1>1. Len(q) \in Nat /\ DOMAIN q = 1..Len(q)
  BY LenProperties
<1>2. {i \in DOMAIN q : Before(q[i], e)} = 1..Len(q)
  BY <1>1
<1>3. Cardinality(1..Len(q)) = Len(q)
  BY <1>1, FS_Interval
<1>4. SubSeq(q, 1, Len(q)) = q
  BY SubSeqFull
<1> QED BY <1>2, <1>3, <1>4 DEF Ahead

\* The cut keeps an entry exactly if it fits behind the kept ones ahead of it.
LEMMA TrimmedEntries ==
  ASSUME NEW E, Rankable(E), NEW rows \in Seq(E), Ranked(rows), NEW budget
  PROVE  /\ Trimmed(rows, budget) \in Seq(E)
         /\ Ranked(Trimmed(rows, budget))
         /\ Range(Trimmed(rows, budget)) \subseteq Range(rows)
         /\ \A e \in Range(rows) :
               e \in Range(Trimmed(rows, budget)) <=>
                  Tokens(Ahead(e, Trimmed(rows, budget))) + e.tokens <= budget
<1>1. /\ Len(rows) \in Nat /\ DOMAIN rows = 1..Len(rows)
      /\ \A i \in 1..Len(rows) : rows[i] \in E
  BY LenProperties, ElementOfSeq
<1>2. PICK g : /\ g[0] = <<>>
               /\ \A k \in 1..Len(rows) : g[k] = TrimTurn(g[k - 1], rows[k], budget)
               /\ Trimmed(rows, budget) = g[Len(rows)]
  BY TrimmedLoop
<1> DEFINE Fits(kept, e) == Tokens(kept) + e.tokens <= budget
           OK(k) ==
             /\ g[k] \in Seq(E)
             /\ Ranked(g[k])
             /\ Range(g[k]) \subseteq {rows[i] : i \in 1..k}
             /\ \A p \in 1..k :
                   rows[p] \in Range(g[k]) <=> Fits(Ahead(rows[p], g[k]), rows[p])
           T == {k \in 0..Len(rows) : OK(k)}
<1>3. 0 \in T
  <2>1. PICK q : q = g[0] /\ q = <<>>
    BY <1>2
  <2>2. q \in Seq(E) /\ Ranked(q) /\ Range(q) = {} /\ 1..0 = {}
    BY <2>1 DEF Ranked, Range
  <2>3. OK(0)
    BY <2>1, <2>2
  <2> HIDE DEF OK
  <2> QED BY <1>1, <2>3
<1>4. ASSUME NEW k \in 1..Len(rows), k - 1 \in T
      PROVE  k \in T
  <2>1. PICK q, e, r : q = g[k - 1] /\ e = rows[k] /\ r = g[k]
    OBVIOUS
  <2>2. /\ q \in Seq(E) /\ Ranked(q) /\ e \in E
        /\ Range(q) \subseteq {rows[i] : i \in 1..(k - 1)}
        /\ \A p \in 1..(k - 1) :
              rows[p] \in Range(q) <=> Fits(Ahead(rows[p], q), rows[p])
    BY <1>1, <1>4, <2>1
  <2>3. \A p \in 1..(k - 1) : Ranks(rows[p], e) /\ rows[p] \in E
    BY <1>1, <2>1 DEF Ranked
  <2>4. ASSUME NEW i \in DOMAIN q
        PROVE  q[i] \in E /\ Ranks(q[i], e) /\ q[i] # e
    <3>1. q[i] \in Range(q)
      BY DEF Range
    <3>2. PICK p \in 1..(k - 1) : q[i] = rows[p]
      BY <2>2, <3>1
    <3> QED BY <2>2, <2>3, <3>2, RanksIsOrder
  <2>5. e \notin Range(q)
    BY <2>4 DEF Range
  <2>6. \A p \in 1..(k - 1) : ~Before(e, rows[p]) /\ rows[p] # e
    BY <2>2, <2>3, RanksIsOrder, BeforeIsRanks
  <2>7. Ahead(e, q) = q
    BY <2>2, <2>4, BeforeIsRanks, AheadOfLast
  <2>8. ASSUME NEW p \in 1..k PROVE p \in 1..(k - 1) \/ rows[p] = e
    BY <1>1, <2>1
  <2>9. ASSUME ~Fits(q, e)
        PROVE  OK(k)
    <3>1. r = q
      BY <1>2, <2>1, <2>9 DEF TrimTurn
    <3>2. \A p \in 1..k :
             rows[p] \in Range(r) <=> Fits(Ahead(rows[p], r), rows[p])
      BY <2>2, <2>5, <2>7, <2>8, <2>9, <3>1
    <3>3. Range(r) \subseteq {rows[i] : i \in 1..k}
      BY <1>1, <2>2, <3>1
    <3> QED BY <2>1, <2>2, <3>1, <3>2, <3>3
  <2>10. ASSUME Fits(q, e)
         PROVE  OK(k)
    <3>1. r = Append(q, e)
      BY <1>2, <2>1, <2>10 DEF TrimTurn
    <3>2. /\ r \in Seq(E) /\ Len(q) \in Nat /\ DOMAIN q = 1..Len(q)
          /\ DOMAIN r = 1..(Len(q) + 1)
          /\ \A i \in 1..Len(q) : r[i] = q[i]
          /\ r[Len(q) + 1] = e
      BY <2>2, <3>1, AppendProperties, LenProperties
    <3>3. Ranked(r)
      <4>1. ASSUME NEW i \in DOMAIN r, NEW j \in DOMAIN r, i < j
            PROVE  Ranks(r[i], r[j])
        <5>1. i \in DOMAIN q /\ (j \in DOMAIN q \/ j = Len(q) + 1)
          BY <3>2, <4>1
        <5> QED BY <2>2, <2>4, <3>2, <4>1, <5>1 DEF Ranked
      <4> QED BY <4>1 DEF Ranked
    <3>4. Range(r) = Range(q) \cup {e}
      <4>1. DOMAIN r = DOMAIN q \cup {Len(q) + 1}
        BY <3>2
      <4> QED BY <3>2, <4>1 DEF Range
    <3>5. ASSUME NEW p \in 1..(k - 1)
          PROVE  rows[p] \in Range(r) <=> Fits(Ahead(rows[p], r), rows[p])
      <4>1. Ahead(rows[p], r) = Ahead(rows[p], q)
        BY <2>2, <2>6, <3>1, AheadKept
      <4>2. rows[p] \in Range(r) <=> rows[p] \in Range(q)
        BY <2>6, <3>4
      <4> QED BY <2>2, <4>1, <4>2
    <3>6. e \in Range(r) /\ Fits(Ahead(e, r), e)
      <4>1. ~Before(e, e)
        BY <2>2, RanksIsOrder, BeforeIsRanks
      <4>2. Ahead(e, r) = Ahead(e, q)
        BY <2>2, <3>1, <4>1, AheadKept
      <4> QED BY <2>7, <2>10, <3>4, <4>2
    <3>7. \A p \in 1..k :
             rows[p] \in Range(r) <=> Fits(Ahead(rows[p], r), rows[p])
      BY <2>8, <3>5, <3>6
    <3>8. Range(r) \subseteq {rows[i] : i \in 1..k}
      BY <1>1, <2>1, <2>2, <3>4
    <3> QED BY <2>1, <3>2, <3>3, <3>7, <3>8
  <2>11. OK(k)
    BY <2>9, <2>10
  <2> HIDE DEF OK
  <2> QED BY <1>1, <2>11
<1>5. Len(rows) \in T
  <2> HIDE DEF T
  <2> QED BY <1>1, <1>3, <1>4, EveryTurn
<1>6. {rows[i] : i \in 1..Len(rows)} = Range(rows)
  BY <1>1 DEF Range
<1>7. PICK q : q = g[Len(rows)] /\ q = Trimmed(rows, budget)
  BY <1>2
<1>8. /\ q \in Seq(E) /\ Ranked(q)
      /\ Range(q) \subseteq {rows[i] : i \in 1..Len(rows)}
      /\ \A p \in 1..Len(rows) :
            rows[p] \in Range(q) <=> Fits(Ahead(rows[p], q), rows[p])
  BY <1>5, <1>7
<1>9. \A e \in Range(rows) : e \in Range(q) <=> Fits(Ahead(e, q), e)
  BY <1>1, <1>8 DEF Range
<1> QED BY <1>6, <1>7, <1>8, <1>9


-----------------------------------------------------------------------------
(* The entries that may be matched: finitely many, with integer priorities. *)

Prioritised(row) == "priority" \in DOMAIN row /\ row.priority \in Int

LoreOK(lore) == \A id \in DOMAIN lore : Prioritised(lore[id])

SnapOK(snap) == snap # NULL => LoreOK(snap.lore)

RequestOK(o) ==
  o.step = "write" =>
     /\ o.kind = "lore.create" => Prioritised(o.row)
     /\ o.kind = "lore.update" => Prioritised(Edited(o.seen, o.edit))

LoreInv ==
  /\ IsFiniteSet(DOMAIN db.lore) /\ LoreOK(db.lore)
  /\ \A t \in Thread : SnapOK(conn[t].snap) /\ RequestOK(op[t])

\* A connection goes on with what it sees, or with the tables of now.
SnapsKept == \A u \in Thread : conn'[u].snap \in {conn[u].snap, View(u), NULL}

\* What a step has to keep of the entries, the snapshots and the requests.
LEMMA LoreStep ==
  ASSUME LoreInv, SnapsKept, IsFiniteSet(DOMAIN db'.lore), LoreOK(db'.lore),
         \A u \in Thread : op'[u] = op[u] \/ RequestOK(op'[u])
  PROVE  LoreInv'
<1>1. ASSUME NEW u \in Thread
      PROVE  SnapOK(conn'[u].snap)
  <2>1. PICK x : x = conn'[u].snap /\ x \in {conn[u].snap, View(u), NULL}
    BY DEF SnapsKept
  <2>2. SnapOK(View(u))
    BY DEF LoreInv, View, SnapOK
  <2>3. SnapOK(conn[u].snap) /\ SnapOK(NULL)
    BY DEF LoreInv, SnapOK
  <2> QED BY <2>1, <2>2, <2>3
<1>2. \A u \in Thread : RequestOK(op'[u])
  BY DEF LoreInv
<1> QED BY <1>1, <1>2 DEF LoreInv, SnapOK, LoreOK, RequestOK

LEMMA SnapsSelected ==
  ASSUME RoomsInv, NEW t \in Thread, conn' = Selected(t)
  PROVE  SnapsKept
<1>1. ASSUME NEW u \in Thread
      PROVE  conn'[u].snap \in {conn[u].snap, View(u), NULL}
  <2>1. CASE u = t /\ conn[t].intx
    <3>1. conn'[t] = [conn[t] EXCEPT !.snap = View(t)]
      BY <2>1 DEF Selected, RoomsInv, ConnsOK
    <3>2. conn'[t].snap = View(t)
      BY <3>1 DEF RoomsInv, ConnsOK, ConnOK
    <3> QED BY <2>1, <3>2
  <2>2. CASE ~(u = t /\ conn[t].intx)
    BY <2>2 DEF Selected, RoomsInv, ConnsOK
  <2> QED BY <2>1, <2>2
<1> QED BY <1>1 DEF SnapsKept

LEMMA SnapsAfterCommit ==
  ASSUME RoomsInv, NEW t, conn' = AfterCommit(t)
  PROVE  SnapsKept
<1>1. ASSUME NEW u \in Thread
      PROVE  conn'[u].snap \in {conn[u].snap, NULL}
  <2>1. conn'[u] = IF u = t THEN Clean
                   ELSE IF conn[u].snap = NULL THEN conn[u]
                   ELSE [conn[u] EXCEPT !.behind = TRUE]
    BY DEF AfterCommit
  <2>2. [conn[u] EXCEPT !.behind = TRUE].snap = conn[u].snap
    BY DEF RoomsInv, ConnsOK, ConnOK
  <2> QED BY <2>1, <2>2 DEF Clean
<1> QED BY <1>1 DEF SnapsKept

LEMMA SnapsOneSet ==
  ASSUME RoomsInv, NEW t \in Thread,
         conn' = [conn EXCEPT ![t] = Clean] \/ conn' = [conn EXCEPT ![t].intx = TRUE]
  PROVE  SnapsKept
<1>1. ASSUME NEW u \in Thread
      PROVE  conn'[u].snap \in {conn[u].snap, NULL}
  <2>1. u # t => conn'[u] = conn[u]
    BY DEF RoomsInv, ConnsOK
  <2>2. conn'[t] = Clean \/ conn'[t] = [conn[t] EXCEPT !.intx = TRUE]
    BY DEF RoomsInv, ConnsOK
  <2>3. [conn[t] EXCEPT !.intx = TRUE].snap = conn[t].snap /\ Clean.snap = NULL
    BY DEF RoomsInv, ConnsOK, ConnOK, Clean
  <2> QED BY <2>1, <2>2, <2>3
<1> QED BY <1>1 DEF SnapsKept

LEMMA SubmitLore ==
  ASSUME RoomsInv, LoreInv, NEW t \in Thread, NEW o, Submits(t, o), RequestOK(o)
  PROVE  LoreInv'
<1>1. op' = [op EXCEPT ![t] = o] /\ UNCHANGED <<db, conn>>
  BY DEF Submits, dbVars
<1>2. \A u \in Thread : op'[u] = op[u] \/ RequestOK(op'[u])
  BY <1>1 DEF RoomsInv, OpsOK
<1>3. SnapsKept
  BY <1>1 DEF SnapsKept
<1> QED BY <1>1, <1>2, <1>3, LoreStep DEF LoreInv

LEMMA LookUpLore ==
  ASSUME RoomsInv, LoreInv, NEW t \in Thread, NEW found, NEW o, LooksUp(t, found, o),
         found => RequestOK(o)
  PROVE  LoreInv'
<1>1. PICK x : x = IF found THEN o ELSE Idle
  OBVIOUS
<1>2. op' = [op EXCEPT ![t] = x] /\ conn' = Selected(t) /\ UNCHANGED db
  BY <1>1 DEF LooksUp
<1>3. RequestOK(x)
  BY <1>1 DEF RequestOK, Idle
<1>4. \A u \in Thread : op'[u] = op[u] \/ RequestOK(op'[u])
  BY <1>2, <1>3 DEF RoomsInv, OpsOK
<1>5. SnapsKept
  BY <1>2, SnapsSelected
<1> QED BY <1>2, <1>4, <1>5, LoreStep DEF LoreInv

LEMMA EditedPriority ==
  ASSUME NEW row, NEW edit \in LoreEdit, Prioritised(row)
  PROVE  Prioritised(Edited(row, edit))
BY PriorityAssumption DEF Prioritised, Edited

LEMMA StartsLore ==
  ASSUME RoomsInv, LoreInv, NEW t \in Thread, Starts(t)
  PROVE  LoreInv'
<1>1. ASSUME NEW id, NEW row \in LoreRow, Submits(t, WriteRow("lore.create", id, row))
      PROVE  LoreInv'
  <2>1. RequestOK(WriteRow("lore.create", id, row))
    BY PriorityAssumption DEF RequestOK, WriteRow, Prioritised
  <2> QED BY <1>1, <2>1, SubmitLore
<1>2. ASSUME NEW id, NEW edit \in LoreEdit, NEW seen,
             seen = IF id \in DOMAIN View(t).lore THEN View(t).lore[id] ELSE NULL,
             LooksUp(t, seen # NULL, WriteEdit("lore.update", id, seen, edit))
      PROVE  LoreInv'
  <2>1. LoreOK(View(t).lore)
    BY DEF View, LoreInv, SnapOK
  <2>2. seen # NULL => Prioritised(seen)
    BY <1>2, <2>1 DEF LoreOK
  <2>3. seen # NULL => RequestOK(WriteEdit("lore.update", id, seen, edit))
    BY <2>2, EditedPriority DEF RequestOK, WriteEdit
  <2> QED BY <1>2, <2>3, LookUpLore
<1>3. ASSUME NEW kind, kind \notin {"lore.create", "lore.update"},
             NEW id, NEW x, NEW y, NEW found,
             NEW o \in {Write(kind, id), WriteRow(kind, id, x),
                        WriteEdit(kind, id, x, y), WriteParticipant(kind, id, x), Idle},
             Submits(t, o) \/ LooksUp(t, found, o)
      PROVE  LoreInv'
  <2>1. RequestOK(o)
    BY <1>3 DEF RequestOK, Write, WriteRow, WriteEdit, WriteParticipant, Idle
  <2> QED BY <1>3, <2>1, SubmitLore, LookUpLore
<1>4. CASE CreateLore(t)
  BY <1>1, <1>4 DEF CreateLore
<1>5. CASE UpdateLore(t)
  BY <1>2, <1>5 DEF UpdateLore
<1>6. CASE DeleteLore(t)
  BY <1>3, <1>6 DEF DeleteLore
<1>7. CASE ImportCharacter(t)
  BY <1>3, <1>7 DEF ImportCharacter
<1>8. CASE UpdateCharacter(t)
  BY <1>3, <1>8 DEF UpdateCharacter
<1>9. CASE DeleteCharacter(t)
  BY <1>3, <1>9 DEF DeleteCharacter
<1>10. CASE CreateRoom(t)
  BY <1>3, <1>10 DEF CreateRoom
<1>11. CASE ArchiveRoom(t)
  BY <1>3, <1>11 DEF ArchiveRoom
<1>12. CASE SendMessage(t)
  BY <1>3, <1>12 DEF SendMessage
<1>13. CASE AddParticipant(t)
  BY <1>3, <1>13 DEF AddParticipant
<1>14. CASE RemoveParticipant(t)
  BY <1>3, <1>14 DEF RemoveParticipant
<1>15. CASE ReadOnly(t)
  <2>1. LooksUp(t, FALSE, Idle)
    BY <1>15 DEF ReadOnly
  <2> QED BY <2>1, LookUpLore
<1> QED BY <1>4, <1>5, <1>6, <1>7, <1>8, <1>9, <1>10, <1>11, <1>12, <1>13,
           <1>14, <1>15 DEF Starts

LEMMA WriteLore ==
  ASSUME RoomsInv, LoreInv, NEW t \in Thread, WriteAndCommit(t)
  PROVE  LoreInv'
<1>a. PICK o, T, a : o = op[t] /\ T = Written(o) /\ a = Announcement(o)
  OBVIOUS
<1>1. /\ o.step = "write" /\ db' = T /\ op' = [op EXCEPT ![t] = a]
      /\ conn' = AfterCommit(t) \/ conn' = [conn EXCEPT ![t] = Clean]
  BY <1>a DEF WriteAndCommit, Commit
<1>2. RequestOK(o) /\ o.kind \in Kind
  BY <1>1, <1>a DEF LoreInv, RoomsInv, OpsOK, Held, Idle
<1>3. SnapsKept
  BY <1>1, SnapsAfterCommit, SnapsOneSet
<1>4. RequestOK(a)
  BY <1>a DEF RequestOK, Announcement, Idle
<1>5. \A u \in Thread : op'[u] = op[u] \/ RequestOK(op'[u])
  BY <1>1, <1>4 DEF RoomsInv, OpsOK
<1>6. IsFiniteSet(DOMAIN db.lore) /\ LoreOK(db.lore) /\ Shaped(db)
  BY DEF LoreInv, RoomsInv
<1>7. IsFiniteSet(DOMAIN T.lore) /\ LoreOK(T.lore)
  <2>1. CASE o.kind = "lore.create"
    <3>1. T.lore = SetRow(db.lore, o.id, o.row)
      BY <1>6, <1>a, <2>1 DEF Written, Shaped
    <3>2. DOMAIN T.lore = DOMAIN db.lore \cup {o.id}
      BY <3>1 DEF SetRow
    <3>3. LoreOK(T.lore)
      BY <1>1, <1>2, <1>6, <2>1, <3>1 DEF LoreOK, SetRow, RequestOK
    <3> QED BY <1>6, <3>2, <3>3, FS_AddElement
  <2>2. CASE o.kind = "lore.update"
    <3>1. T.lore = UpdatedLore(db.lore, o)
      BY <1>6, <1>a, <2>2 DEF Written, Shaped
    <3>2. PICK row : row = Edited(o.seen, o.edit) /\ Prioritised(row)
      BY <1>1, <1>2, <2>2 DEF RequestOK
    <3>3. CASE o.id \in DOMAIN db.lore
      <4>1. T.lore = SetRow(db.lore, o.id, row)
        BY <3>1, <3>2, <3>3 DEF UpdatedLore
      <4>2. DOMAIN T.lore = DOMAIN db.lore /\ LoreOK(T.lore)
        BY <1>6, <3>2, <3>3, <4>1 DEF LoreOK, SetRow
      <4> QED BY <1>6, <4>2
    <3>4. CASE o.id \notin DOMAIN db.lore
      BY <1>6, <3>1, <3>4 DEF UpdatedLore
    <3> QED BY <3>3, <3>4
  <2>3. CASE o.kind = "lore.delete"
    <3>1. T.lore = DropRow(db.lore, o.id)
      BY <1>6, <1>a, <2>3 DEF Written, Shaped
    <3>2. DOMAIN T.lore = DOMAIN db.lore \ {o.id} /\ LoreOK(T.lore)
      BY <1>6, <3>1 DEF DropRow, LoreOK
    <3> QED BY <1>6, <3>2, FS_RemoveElement
  <2>4. CASE o.kind \notin {"lore.create", "lore.update", "lore.delete"}
    <3>1. T.lore = db.lore
      BY <1>2, <1>6, <1>a, <2>4 DEF Written, Shaped, Kind
    <3> QED BY <1>6, <3>1
  <2> QED BY <2>1, <2>2, <2>3, <2>4
<1> QED BY <1>1, <1>3, <1>5, <1>7, LoreStep

LEMMA NextLore == RoomsInv /\ LoreInv /\ [Next]_vars => LoreInv'
<1> SUFFICES ASSUME RoomsInv, LoreInv, [Next]_vars PROVE LoreInv'
  OBVIOUS
<1>1. RequestOK(Idle)
  BY DEF RequestOK, Idle
<1>2. ASSUME SnapsKept, UNCHANGED db,
             \A u \in Thread : op'[u] = op[u] \/ op'[u] = Idle
      PROVE  LoreInv'
  BY <1>1, <1>2, LoreStep DEF LoreInv
<1>3. ASSUME NEW t \in Thread, op' = [op EXCEPT ![t] = Idle]
      PROVE  \A u \in Thread : op'[u] = op[u] \/ op'[u] = Idle
  BY <1>3 DEF RoomsInv, OpsOK
<1>4. ASSUME NEW t \in Thread, WriteFails(t)
      PROVE  LoreInv'
  BY <1>2, <1>3, <1>4, SnapsOneSet DEF WriteFails, Refused
<1>5. ASSUME NEW t \in Thread, Announce(t)
      PROVE  LoreInv'
  BY <1>2, <1>3, <1>5 DEF Announce, dbVars, SnapsKept
<1>6. ASSUME NEW t \in Thread, RetireIdle(t)
      PROVE  LoreInv'
  BY <1>2, <1>6, SnapsOneSet DEF RetireIdle, Retire
<1>7. CASE Others
  <2>1. conn' = conn \/ conn' = AfterCommit(NULL)
    BY <1>7 DEF Others, Hold, Release
  <2>2. SnapsKept
    BY <2>1, SnapsAfterCommit DEF SnapsKept
  <2> QED BY <1>2, <1>7, <2>2 DEF Others, Hold, Release
<1>8. CASE Restart
  <2>1. /\ op' = [t \in Thread |-> Idle]
        /\ conn' = [t \in Thread |-> Clean]
        /\ UNCHANGED db
    BY <1>8 DEF Restart
  <2>2. SnapsKept
    BY <2>1 DEF SnapsKept, Clean
  <2> QED BY <1>2, <2>1, <2>2
<1>9. CASE UNCHANGED vars
  BY <1>2, <1>9 DEF vars, dbVars, SnapsKept
<1> QED
  BY <1>4, <1>5, <1>6, <1>7, <1>8, <1>9, StartsLore, WriteLore DEF Next, Goes

LEMMA InitLore == Init => LoreInv
<1> SUFFICES ASSUME Init PROVE LoreInv
  OBVIOUS
<1>1. db.lore = <<>> /\ DOMAIN db.lore = {}
  BY DEF Init, DBInit, NoTables
<1> QED BY <1>1, FS_EmptySet
        DEF Init, DBInit, Clean, Idle, LoreInv, LoreOK, SnapOK, RequestOK

LEMMA LoreInvariant == Spec => [](RoomsInv /\ LoreInv)
<1>1. RoomsInv /\ LoreInv /\ [Next]_vars => (RoomsInv /\ LoreInv)'
  BY NextRoomsInv, NextLore
<1>2. Init => RoomsInv /\ LoreInv
  BY InitRoomsInv, InitLore
<1> QED BY <1>1, <1>2, PTL DEF Spec

\* Every order of the rows lists every enabled entry once.
LEMMA RowsListEntries ==
  ASSUME LoreInv, RoomsInv, NEW rows \in RowOrders, NEW E, E = {Entry(id) : id \in Enabled}
  PROVE  rows \in Seq(E) /\ Distinct(rows) /\ Range(rows) = E /\ Rankable(E)
<1>1. PICK s \in SetToSeqs(Enabled) : rows = [i \in DOMAIN s |-> Entry(s[i])]
  BY DEF RowOrders
<1>2. IsFiniteSet(Enabled) /\ Enabled \subseteq DOMAIN db.lore
  BY FS_Subset DEF LoreInv, Enabled
<1>3. PICK n \in Nat : n = Cardinality(Enabled)
  BY <1>2, FS_CardinalityType
<1>4. /\ s \in [1..n -> Enabled]
      /\ \A i, j \in 1..n : i # j => s[i] # s[j]
  BY <1>3 DEF SetToSeqs
<1>5. \A id \in Enabled : \E i \in 1..n : s[i] = id
  <2>1. s \in Injection(1..n, Enabled)
    BY <1>4 DEF Injection, IsInjective
  <2>2. IsFiniteSet(1..n) /\ Cardinality(1..n) = n
    BY FS_Interval
  <2>3. s \in Surjection(1..n, Enabled)
    BY <1>2, <1>3, <2>1, <2>2, FS_Injection
  <2> QED BY <2>3 DEF Surjection
<1>6. \A id \in Enabled : Entry(id).id = id /\ Entry(id).priority = db.lore[id].priority
  BY DEF Entry
<1>7. /\ DOMAIN rows = 1..n
      /\ \A i \in 1..n : rows[i] = Entry(s[i]) /\ s[i] \in Enabled
  BY <1>1, <1>4
<1>8. rows \in Seq(E)
  <2>1. rows \in [1..n -> E]
    BY <1>1, <1>4, <1>7
  <2> QED BY <2>1, SeqDef
<1>9. Distinct(rows)
  BY <1>4, <1>6, <1>7 DEF Distinct
<1>10. Range(rows) = E
  <2>1. Range(rows) \subseteq E
    BY <1>7 DEF Range
  <2>2. ASSUME NEW id \in Enabled PROVE Entry(id) \in Range(rows)
    BY <1>5, <1>7 DEF Range
  <2> QED BY <2>1, <2>2
<1>11. Rankable(E)
  <2>1. ASSUME NEW id \in Enabled
        PROVE  Entry(id).priority \in Int /\ Entry(id).id \in Nat
    <3>1. db.lore[id].priority \in Int
      BY <1>2 DEF LoreInv, LoreOK, Prioritised
    <3>2. id \in Nat
      BY <1>2, RoomsAssumption DEF RoomsInv, TablesOK
    <3> QED BY <1>6, <3>1, <3>2
  <2> QED BY <2>1 DEF Rankable
<1> QED BY <1>8, <1>9, <1>10, <1>11

LEMMA MatchedFromInv == RoomsInv /\ LoreInv => MatchedByRank
<1> SUFFICES ASSUME RoomsInv, LoreInv,
                    NEW said \in SUBSET Word, NEW budget \in Budget, NEW rows \in RowOrders,
                    NEW matched, matched = Matched(rows, said, budget)
             PROVE  /\ \A i, j \in DOMAIN matched :
                          i < j => Before(matched[i], matched[j])
                    /\ \A e \in {Entry(id) : id \in Enabled} :
                          e \in Range(matched) <=>
                             /\ Fires(e, said)
                             /\ Tokens(Ahead(e, matched)) + e.tokens <= budget
  BY DEF MatchedByRank
<1>1. PICK E : E = {Entry(id) : id \in Enabled}
  OBVIOUS
<1>2. rows \in Seq(E) /\ Distinct(rows) /\ Range(rows) = E /\ Rankable(E)
  BY <1>1, RowsListEntries
<1>3. PICK fired : /\ fired = Fired(rows, said) /\ fired \in Seq(E)
                   /\ Distinct(fired) /\ Range(fired) = {e \in E : Fires(e, said)}
  BY <1>2, FiredEntries
<1>4. PICK sorted : /\ sorted = Sorted(fired) /\ sorted \in Seq(E)
                    /\ Ranked(sorted) /\ Range(sorted) = Range(fired)
  BY <1>2, <1>3, SortedEntries
<1>5. matched = Trimmed(sorted, budget)
  BY <1>3, <1>4 DEF Matched
<1>6. /\ Ranked(matched) /\ Range(matched) \subseteq Range(sorted)
      /\ \A e \in Range(sorted) :
            e \in Range(matched) <=> Tokens(Ahead(e, matched)) + e.tokens <= budget
  BY <1>2, <1>4, <1>5, TrimmedEntries
<1>7. \A i, j \in DOMAIN matched : i < j => Before(matched[i], matched[j])
  BY <1>6, BeforeIsRanks DEF Ranked
<1>8. ASSUME NEW e \in E
      PROVE  e \in Range(matched) <=>
                /\ Fires(e, said)
                /\ Tokens(Ahead(e, matched)) + e.tokens <= budget
  BY <1>3, <1>4, <1>6
<1> QED BY <1>1, <1>7, <1>8

\* What the lorebook matches depends on the entries only, whatever the order of
\* the rows and of the edits that led to them: the entries that fire come by
\* priority and id, and each is in exactly if it fits behind those before it.
THEOREM MatchingIsByRank == Spec => []MatchedByRank
BY LoreInvariant, MatchedFromInv, PTL

=============================================================================
