-------------------------------- MODULE Rooms --------------------------------
(***************************************************************************)
(* api/rp.py: the role-play data of the dashboard (lorebook entries,        *)
(* characters, rooms with their participants and messages), edited by HTTP  *)
(* handlers that run at the same time on the threads of a pool.  A handler  *)
(* looks a row up, writes and commits, and tells the browsers afterwards;   *)
(* other threads run in between.  op[t] is the write or the broadcast that  *)
(* thread t still has to do.                                                *)
(***************************************************************************)
EXTENDS DashboardDB, Lorebook

CONSTANTS
    LoreId, CharId, RoomId,  \* ids that uuid4 may give; LoreId are numbers,
                             \* for they are also compared
    LoreRow,      \* what a lorebook entry may say: records
    LoreEdit,     \* what an edit of one may name: records of some of its fields
    CharRow, CharEdit,
    Word,         \* what the patterns of triggers can match
    Budget,       \* the token budgets that previews ask for
    MaxMessages   \* bound: no message is sent once there are as many

ASSUME RoomsAssumption == LoreId \subseteq Nat /\ MaxMessages \in Nat

\* Both handlers take int() of a priority.
ASSUME PriorityAssumption ==
    /\ \A row \in LoreRow : "priority" \in DOMAIN row /\ row.priority \in Int
    /\ \A edit \in LoreEdit : "priority" \in DOMAIN edit => edit.priority \in Int

VARIABLES
    op,
    used,       \* ids given out; a uuid is never given out twice
    announced,  \* history: the messages and rooms that were broadcast
    unsaid      \* history: those whose broadcast a restart cut off

history == <<announced, unsaid>>
vars == <<dbVars, op, used, history>>

Idle == [step |-> "idle"]

\* The tables of dashboard.db that rp.py uses: rows by id, and the messages in
\* the order of their AUTOINCREMENT ids, each with its room.
NoTables == [lore |-> <<>>, character |-> <<>>, room |-> <<>>,
             participant |-> {}, message |-> <<>>]

SetRow(table, id, row) ==
    [x \in DOMAIN table \cup {id} |-> IF x = id THEN row ELSE table[x]]

DropRow(table, id) == [x \in DOMAIN table \ {id} |-> table[x]]

\* Variant with a bug: a field that is not named gets its default.
EditedFromBlank(row, edit) ==
    [x \in DOMAIN row |-> IF x \in DOMAIN edit THEN edit[x] ELSE
       (CHOOSE blank \in LoreRow \cup CharRow : DOMAIN blank = DOMAIN row)[x]]

\* A row with the fields that an edit names.
Edited(row, edit) ==
    [x \in DOMAIN row |-> IF x \in DOMAIN edit THEN edit[x] ELSE row[x]]

-----------------------------------------------------------------------------
(* Starting a handler *)

\* A handler that writes without looking anything up.
Submits(t, request) ==
    /\ op[t] = Idle
    /\ op' = [op EXCEPT ![t] = request]
    /\ UNCHANGED <<dbVars, history>>

\* A handler that looks for a row first, and answers 404 without it.
LooksUp(t, found, request) ==
    /\ op[t] = Idle
    /\ conn' = Selected(t)
    /\ op' = [op EXCEPT ![t] = IF found THEN request ELSE Idle]
    /\ UNCHANGED <<db, held, used, history>>

\* The statement a handler is going to execute: on a row by its id, with the row
\* to insert, the edit and the row it was made on, or the character taking part.
Write(kind, id) == [step |-> "write", kind |-> kind, id |-> id]

WriteRow(kind, id, row) ==
    [step |-> "write", kind |-> kind, id |-> id, row |-> row]

WriteEdit(kind, id, seen, edit) ==
    [step |-> "write", kind |-> kind, id |-> id, seen |-> seen, edit |-> edit]

WriteParticipant(kind, id, c) ==
    [step |-> "write", kind |-> kind, id |-> id, character |-> c]

CreateLore(t) ==
    \E id \in LoreId \ used, row \in LoreRow :
        /\ Submits(t, WriteRow("lore.create", id, row))
        /\ used' = used \cup {id}

\* The values of the fields that are not named come from the row it read.
UpdateLore(t) ==
    \E id \in LoreId \cap used, edit \in LoreEdit :
        LET lore == View(t).lore
            seen == IF id \in DOMAIN lore THEN lore[id] ELSE NULL
        IN  LooksUp(t, seen # NULL,
                    WriteEdit("lore.update", id, seen, edit))

DeleteLore(t) ==
    \E id \in LoreId \cap used :
        LooksUp(t, id \in DOMAIN View(t).lore, Write("lore.delete", id))

ImportCharacter(t) ==
    \E id \in CharId \ used, row \in CharRow :
        /\ Submits(t, WriteRow("character.create", id, row))
        /\ used' = used \cup {id}

UpdateCharacter(t) ==
    \E id \in CharId \cap used, edit \in CharEdit :
        LooksUp(t, id \in DOMAIN View(t).character,
                WriteEdit("character.update", id, NULL, edit))

DeleteCharacter(t) ==
    \E id \in CharId \cap used :
        LooksUp(t, id \in DOMAIN View(t).character, Write("character.delete", id))

CreateRoom(t) ==
    \E id \in RoomId \ used :
        /\ Submits(t, Write("room.create", id))
        /\ used' = used \cup {id}

ArchiveRoom(t) ==
    \E id \in RoomId \cap used :
        LooksUp(t, id \in DOMAIN View(t).room, Write("room.archive", id))

\* Variant with a bug: the room is not looked up.
SendsAnywhere(t) ==
    /\ Len(db.message) < MaxMessages
    /\ \E id \in RoomId : Submits(t, Write("message.send", id))
    /\ UNCHANGED used

\* send_message; an archived room takes messages like any other.
SendMessage(t) ==
    /\ Len(db.message) < MaxMessages
    /\ \E id \in RoomId \cap used :
          LooksUp(t, id \in DOMAIN View(t).room, Write("message.send", id))

\* Nobody asks whether the character exists.
AddParticipant(t) ==
    \E id \in RoomId \cap used, c \in CharId :
        LooksUp(t, id \in DOMAIN View(t).room,
                WriteParticipant("participant.add", id, c))

RemoveParticipant(t) ==
    \E id \in RoomId, c \in CharId :
        /\ Submits(t, WriteParticipant("participant.remove", id, c))
        /\ UNCHANGED used

\* list_lore, match_preview, list_characters, get_character, list_rooms,
\* list_messages: what they show is View(t).
ReadOnly(t) == LooksUp(t, FALSE, Idle)

-----------------------------------------------------------------------------
(* Writing *)

\* Variant with a bug: an edit of a row that has gone puts it back.
UpsertLore(lore, o) == SetRow(lore, o.id, Edited(o.seen, o.edit))

\* The UPDATE sets every column, and matches no row if the entry has gone.
UpdatedLore(lore, o) ==
    IF o.id \in DOMAIN lore THEN SetRow(lore, o.id, Edited(o.seen, o.edit)) ELSE lore

\* The UPDATE sets the named columns only.
UpdatedCharacter(character, o) ==
    IF o.id \in DOMAIN character
    THEN SetRow(character, o.id, Edited(character[o.id], o.edit))
    ELSE character

\* The tables after the statement that a handler executes.
Written(o) ==
    CASE o.kind = "lore.create" -> [db EXCEPT !.lore = SetRow(@, o.id, o.row)]
      [] o.kind = "lore.update" -> [db EXCEPT !.lore = UpdatedLore(@, o)]
      [] o.kind = "lore.delete" -> [db EXCEPT !.lore = DropRow(@, o.id)]
      [] o.kind = "character.create" ->
            [db EXCEPT !.character = SetRow(@, o.id, o.row)]
      [] o.kind = "character.update" ->
            [db EXCEPT !.character = UpdatedCharacter(@, o)]
      [] o.kind = "character.delete" -> [db EXCEPT !.character = DropRow(@, o.id)]
      [] o.kind = "room.create" -> [db EXCEPT !.room = SetRow(@, o.id, "active")]
      [] o.kind = "room.archive" -> [db EXCEPT !.room = SetRow(@, o.id, "archived")]
      [] o.kind = "message.send" -> [db EXCEPT !.message = Append(@, o.id)]
      [] o.kind = "participant.add" ->
            [db EXCEPT !.participant = @ \cup {<<o.id, o.character>>}]
      [] o.kind = "participant.remove" ->
            [db EXCEPT !.participant = @ \ {<<o.id, o.character>>}]

\* An UPDATE rewrites the row it matches even with the values it has.
Rewrites(o) ==
    \/ o.kind = "lore.update" /\ o.id \in DOMAIN db.lore
    \/ o.kind = "character.update" /\ o.id \in DOMAIN db.character
    \/ o.kind = "room.archive"

\* After its commit a handler may have a new row to broadcast.
Told == {"message.send", "room.create", "lore.create"}

Announcement(o) ==
    IF o.kind \notin Told THEN Idle
    ELSE [step |-> "announce",
          row |-> <<o.kind, IF o.kind = "message.send"
                            THEN Len(db.message) + 1 ELSE o.id>>]

WriteAndCommit(t) ==
    LET o == op[t]
    IN  /\ o.step = "write"
        /\ Commit(t, Written(o), Written(o) # db \/ Rewrites(o))
        /\ op' = [op EXCEPT ![t] = Announcement(o)]
        /\ UNCHANGED <<used, history>>

\* A 500, with the connection left as it is.
WriteFails(t) ==
    /\ op[t].step = "write"
    /\ Refused(t)
    /\ op' = [op EXCEPT ![t] = Idle]
    /\ UNCHANGED <<used, history>>

\* Entries may be deleted again: they have no history.
Kept(rows) == {row \in rows : row[1] # "lore.create"}

\* Variant with a bug: the newest message is broadcast, not the one inserted.
AnnounceNewest(t) ==
    /\ op[t].step = "announce"
    /\ announced' = announced \cup
          Kept({IF op[t].row[1] = "message.send"
                THEN <<"message.send", Len(db.message)>> ELSE op[t].row})
    /\ op' = [op EXCEPT ![t] = Idle]
    /\ UNCHANGED <<dbVars, used, unsaid>>

\* _broadcast of "rp_message", "room_created" or "lore_created".
Announce(t) ==
    /\ op[t].step = "announce"
    /\ announced' = announced \cup Kept({op[t].row})
    /\ op' = [op EXCEPT ![t] = Idle]
    /\ UNCHANGED <<dbVars, used, unsaid>>

-----------------------------------------------------------------------------
\* The rows whose broadcast is still to come.
Announcing == {op[t].row : t \in {u \in Thread : op[u].step = "announce"}}

\* The dashboard ends and starts again; transactions are rolled back.
Restart ==
    /\ \E t \in Thread : op[t] # Idle \/ conn[t] # Clean
    /\ op' = [t \in Thread |-> Idle]
    /\ conn' = [t \in Thread |-> Clean]
    /\ held' = FALSE
    /\ unsaid' = unsaid \cup Kept(Announcing)
    /\ UNCHANGED <<db, used, announced>>

Init ==
    /\ DBInit(NoTables)
    /\ op = [t \in Thread |-> Idle]
    /\ used = {}
    /\ announced = {}
    /\ unsaid = {}

Starts(t) ==
    \/ CreateLore(t)
    \/ UpdateLore(t)
    \/ DeleteLore(t)
    \/ ImportCharacter(t)
    \/ UpdateCharacter(t)
    \/ DeleteCharacter(t)
    \/ CreateRoom(t)
    \/ ArchiveRoom(t)
    \/ SendMessage(t)
    \/ AddParticipant(t)
    \/ RemoveParticipant(t)
    \/ ReadOnly(t)

Goes(t) == WriteAndCommit(t) \/ WriteFails(t) \/ Announce(t)

RetireIdle(t) == op[t] = Idle /\ Retire(t) /\ UNCHANGED <<op, used, history>>

Others == (Hold \/ Release) /\ UNCHANGED <<op, used, history>>

Next ==
    \/ \E t \in Thread : Starts(t) \/ Goes(t) \/ RetireIdle(t)
    \/ Others
    \/ Restart

Spec == Init /\ [][Next]_vars

-----------------------------------------------------------------------------
(* Properties *)

OpOK(o) ==
    \/ o = Idle
    \/ o.step = "announce" /\ o.row[1] \in Told
    \/ /\ o.step = "write"
       /\ o.id \in LoreId \cup CharId \cup RoomId
       /\ o.kind = "lore.update" => o.seen # NULL /\ o.edit \in LoreEdit

\* Messages and participants belong to rooms that exist, although the room is
\* looked up in one statement, possibly on a snapshot of the past, and used in
\* another (rp.py:551-560, 590-596).
TablesOK(T) ==
    /\ DOMAIN T.lore \subseteq LoreId \cap used
    /\ DOMAIN T.character \subseteq CharId \cap used
    /\ DOMAIN T.room \subseteq RoomId \cap used
    /\ T.participant \subseteq (DOMAIN T.room) \X CharId
    /\ T.message \in Seq(DOMAIN T.room)

TypeOK ==
    /\ TablesOK(db)
    /\ \A t \in Thread :
          /\ OpOK(op[t])
          /\ conn[t].snap # NULL => conn[t].intx /\ TablesOK(conn[t].snap)
          /\ conn[t].behind => conn[t].snap # NULL
    /\ held \in BOOLEAN

\* A deleted entry or character stays deleted, although an edit that looked it
\* up before the deletion still writes afterwards: rows appear only where a
\* create or an import inserts them (rp.py:161-178, 399-405).
Creating(kind, id) ==
    \E t \in Thread :
        op[t].step = "write" /\ op[t].kind = kind /\ op[t].id = id /\ op'[t] # op[t]

DeletedStaysDeleted ==
    [][/\ \A id \in DOMAIN db'.lore \ DOMAIN db.lore : Creating("lore.create", id)
       /\ \A id \in DOMAIN db'.character \ DOMAIN db.character :
             Creating("character.create", id)]_vars

\* An edit changes the fields it names.  For a character that holds whatever
\* runs at the same time; an edit of a lorebook entry takes the other fields
\* back to what it had read if the entry changed since (rp.py:138-178, 367-405).
OthersKept(old, new, edit) ==
    \A x \in DOMAIN old \ DOMAIN edit : new[x] = old[x]

EditsKeepOtherFields ==
    [][\A t \in Thread : op[t].step = "write" /\ op'[t] = Idle =>
          /\ op[t].kind = "lore.update" /\ op[t].id \in DOMAIN db.lore =>
                \/ OthersKept(db.lore[op[t].id], db'.lore[op[t].id], op[t].edit)
                \/ op[t].seen # db.lore[op[t].id]
          /\ op[t].kind = "character.update" /\ op[t].id \in DOMAIN db.character =>
                OthersKept(db.character[op[t].id], db'.character[op[t].id],
                           op[t].edit)]_vars

\* Every message and every room is broadcast once, and nothing is broadcast
\* that was not committed: it has been, or one thread is about to, or a restart
\* came between its commit and its broadcast (rp.py:472-488, 546-568).
News == {<<"message.send", i>> : i \in DOMAIN db.message}
           \cup {<<"room.create", id>> : id \in DOMAIN db.room}

BroadcastOnce ==
    /\ announced \cup unsaid \cup Kept(Announcing) = News
    /\ announced \cap Announcing = {}
    /\ \A t, u \in Thread :
          t # u /\ op[t].step = "announce" /\ op[u].step = "announce"
             => op[t].row # op[u].row

Enabled == {id \in DOMAIN db.lore : db.lore[id].enabled}

Entry(id) ==
    [id |-> id, priority |-> db.lore[id].priority,
     tokens |-> db.lore[id].tokens, triggers |-> db.lore[id].triggers]

RowOrders == {[i \in DOMAIN s |-> Entry(s[i])] : s \in SetToSeqs(Enabled)}

Before(e, f) ==
    \/ e.priority < f.priority
    \/ e.priority = f.priority /\ e.id < f.id

\* The order in which SQLite returns the rows does not decide what a preview
\* matches, although the query has no ORDER BY: the entries that fire are listed
\* by their rank, and one of them is left out exactly if it does not fit behind
\* those of higher rank that are in (rp.py:220-223, lorebook_engine.py:103-125).
Ahead(e, entries) ==
    SubSeq(entries, 1, Cardinality({i \in DOMAIN entries : Before(entries[i], e)}))

MatchedByRank ==
    \A said \in SUBSET Word, budget \in Budget, rows \in RowOrders :
        LET matched == Matched(rows, said, budget)
        IN  /\ \A i, j \in DOMAIN matched : i < j => Before(matched[i], matched[j])
            /\ \A e \in {Entry(id) : id \in Enabled} :
                  e \in Range(matched) <=>
                     /\ Fires(e, said)
                     /\ Tokens(Ahead(e, matched)) + e.tokens <= budget

=============================================================================
