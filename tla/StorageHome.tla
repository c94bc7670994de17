----------------------------- MODULE StorageHome -----------------------------
(***************************************************************************)
(* The persistent state service: the storage home of one table in several  *)
(* sessions (pss/src/PersistentHome.cpp, PersistentObject.cpp,             *)
(* DatabaseSession.cpp), each a cache of storage objects over the SQL of   *)
(* PostgreSQLSession.cpp.                                                  *)
(*                                                                         *)
(* A session is a connection in autocommit mode, used by one thread, so a  *)
(* statement is one step and between two statements of a session those of  *)
(* others run.  Passivation and incarnation of a container run time make a *)
(* session each over the same table.                                       *)
(***************************************************************************)
EXTENDS Naturals, Sequences, Functions

CONSTANTS
    Sessions,
    ShortPids,  \* the short pids that are ever created
    States,     \* the states of an object; what a key selects is its state
    NoRow,      \* in the table: no row has this short pid
    NoPid,
    NoKey,
    MaxCalls,   \* bound: calls of all sessions together
    MaxFaults   \* bound: statements that fail

ASSUME NamesAssumption ==
    /\ NoRow \notin States
    /\ NoKey \notin States
    /\ NoPid \notin ShortPids

ASSUME BoundsAssumption == MaxCalls \in Nat /\ MaxFaults \in Nat

VARIABLES
    table,    \* the state column of the table
    created,  \* the short pids that PID::create_pid has given out
    objects,  \* objects_, the incarnations of each session
    state,    \* their states
    modified, \* those with modified_ set
    call,     \* the call of each session
    deleted,  \* short pids whose row was deleted at some time
    foreign,  \* rows deleted, or changed by others, since a session saw them
    calls,
    faults

cacheVars == <<objects, state, modified>>
rowVars == <<table, deleted, foreign>>
vars == <<rowVars, created, cacheVars, call, calls, faults>>

Place == {"idle", "flush", "write", "select", "load", "read", "refresh"}

(* Where a call is; objectIterator_ where it loops; the object of its last *)
(* statement; the key of find_object; what write_object_state has found.   *)
Call == [at : Place, next : Nat \ {0}, pid : ShortPids \cup {NoPid},
         key : States \cup {NoKey}, exist : BOOLEAN]

NoCall == [at |-> "idle", next |-> 1, pid |-> NoPid, key |-> NoKey, exist |-> FALSE]

Cached(s) == Range(objects[s])

TypeOK ==
    /\ table \in [ShortPids -> States \cup {NoRow}]
    /\ created \subseteq ShortPids
    /\ objects \in [Sessions -> Seq(created)]
    /\ state \in [Sessions -> [ShortPids -> States \cup {NoRow}]]
    /\ \A s \in Sessions : \A o \in Cached(s) : state[s][o] \in States
    /\ modified \in [Sessions -> SUBSET created]
    /\ call \in [Sessions -> Call]
    /\ deleted \subseteq ShortPids
    /\ foreign \in [Sessions -> SUBSET ShortPids]
    /\ calls \in Nat
    /\ faults \in Nat

(* The table may hold rows of earlier sessions.                            *)
Init ==
    /\ table \in [ShortPids -> States \cup {NoRow}]
    /\ created = {o \in ShortPids : table[o] # NoRow}
    /\ objects = [s \in Sessions |-> <<>>]
    /\ state = [s \in Sessions |-> [o \in ShortPids |-> NoRow]]
    /\ modified = [s \in Sessions |-> {}]
    /\ call = [s \in Sessions |-> NoCall]
    /\ deleted = {}
    /\ foreign = [s \in Sessions |-> {}]
    /\ calls = 0
    /\ faults = 0

-----------------------------------------------------------------------------
At(s, place) == call[s].at = place
Pid(s) == call[s].pid

Begins(s) ==
    /\ At(s, "idle")
    /\ calls < MaxCalls
    /\ calls' = calls + 1
    /\ UNCHANGED faults

Goes(s, place) == call' = [call EXCEPT ![s].at = place]
Returns(s) == call' = [call EXCEPT ![s] = NoCall]

(* A statement of s leaves this state in the row of o; all other sessions  *)
(* have seen another one.                                                  *)
PutRow(s, o, value) ==
    /\ table' = [table EXCEPT ![o] = value]
    /\ foreign' = [t \in Sessions |->
          IF t = s THEN foreign[t] \ {o} ELSE foreign[t] \cup {o}]
    /\ UNCHANGED deleted

(* Mutant of Create: the new object is not marked.                         *)
CreateUnmarked(s, o, value) ==
    /\ Begins(s)
    /\ o \notin created
    /\ created' = created \cup {o}
    /\ objects' = [objects EXCEPT ![s] = Append(@, o)]
    /\ state' = [state EXCEPT ![s][o] = value]
    /\ UNCHANGED <<rowVars, call, modified>>

(* Mutant of Create: short pids are counted by each session.               *)
CreateCounted(s, o, value) ==
    /\ Begins(s)
    /\ o \notin Cached(s)
    /\ created' = created \cup {o}
    /\ objects' = [objects EXCEPT ![s] = Append(@, o)]
    /\ state' = [state EXCEPT ![s][o] = value]
    /\ modified' = [modified EXCEPT ![s] = @ \cup {o}]
    /\ UNCHANGED <<rowVars, call>>

(* create_object: a new short pid, and nothing is written yet.             *)
Create(s, o, value) ==
    /\ Begins(s)
    /\ o \notin created
    /\ created' = created \cup {o}
    /\ objects' = [objects EXCEPT ![s] = Append(@, o)]
    /\ state' = [state EXCEPT ![s][o] = value]
    /\ modified' = [modified EXCEPT ![s] = @ \cup {o}]
    /\ UNCHANGED <<rowVars, call>>

(* A generated accessor that changes the object.                           *)
SetState(s, o, value) ==
    /\ Begins(s)
    /\ o \in Cached(s)
    /\ state' = [state EXCEPT ![s][o] = value]
    /\ modified' = [modified EXCEPT ![s] = @ \cup {o}]
    /\ UNCHANGED <<rowVars, created, objects, call>>

(* The row is deleted, if there is one; the incarnation stays among the    *)
(* objects, and destroyed_ is read by nothing.                             *)
DestroyObject(s, o) ==
    /\ Begins(s)
    /\ o \in Cached(s)
    /\ \/ table[o] = NoRow /\ UNCHANGED rowVars
       \/ /\ table[o] # NoRow
          /\ table' = [table EXCEPT ![o] = NoRow]
          /\ deleted' = deleted \cup {o}
          /\ foreign' = [t \in Sessions |-> foreign[t] \cup {o}]
    /\ UNCHANGED <<created, cacheVars, call>>

(* flush, and close, which does nothing else.                              *)
Flush(s) ==
    /\ Begins(s)
    /\ Goes(s, "flush")
    /\ UNCHANGED <<rowVars, created, cacheVars>>

(* Mutant of FindObject: the table is searched at once.                    *)
FindObjectUnflushed(s, value) ==
    /\ Begins(s)
    /\ call' = [call EXCEPT ![s].at = "select", ![s].key = value]
    /\ UNCHANGED <<rowVars, created, cacheVars>>

(* find_object flushes before it searches the table.                       *)
FindObject(s, value) ==
    /\ Begins(s)
    /\ call' = [call EXCEPT ![s].at = "flush", ![s].key = value]
    /\ UNCHANGED <<rowVars, created, cacheVars>>

(* Mutant of Find: the incarnations are not searched.                      *)
FindUncached(s, o) == call' = [call EXCEPT ![s].at = "load", ![s].pid = o]

(* find_by_short_pid: an incarnation, or a row to be loaded.               *)
Find(s, o) ==
    IF o \in Cached(s)
    THEN Returns(s)
    ELSE call' = [call EXCEPT ![s].at = "load", ![s].pid = o]

FindByShortPid(s, o) ==
    /\ Begins(s)
    /\ o \in created
    /\ Find(s, o)
    /\ UNCHANGED <<rowVars, created, cacheVars>>

Refresh(s) ==
    /\ Begins(s)
    /\ Goes(s, "refresh")
    /\ UNCHANGED <<rowVars, created, cacheVars>>

-----------------------------------------------------------------------------
InCall == UNCHANGED <<created, calls, faults>>

AtEnd(s) == call[s].next > Len(objects[s])
Current(s) == objects[s][call[s].next]
Advances(s) == call' = [call EXCEPT ![s].at = IF @ = "write" THEN "flush" ELSE @,
                                    ![s].next = @ + 1]

(* The loop of flush, and write_object_state of one object: select, then   *)
(* update or insert.                                                       *)
FlushNext(s) ==
    /\ At(s, "flush")
    /\ ~AtEnd(s)
    /\ IF Current(s) \in modified[s]
       THEN call' = [call EXCEPT ![s].at = "write", ![s].pid = Current(s),
                                 ![s].exist = table[Current(s)] # NoRow]
       ELSE Advances(s)
    /\ UNCHANGED <<rowVars, cacheVars>>
    /\ InCall

FlushEnds(s) ==
    /\ At(s, "flush")
    /\ AtEnd(s)
    /\ IF call[s].key = NoKey THEN Returns(s) ELSE Goes(s, "select")
    /\ UNCHANGED <<rowVars, cacheVars>>
    /\ InCall

(* An update that matches no row succeeds as well; an insert beside a row  *)
(* violates the primary key.                                               *)
Collides(s) == ~call[s].exist /\ table[Pid(s)] # NoRow

Written(s) ==
    IF call[s].exist /\ table[Pid(s)] = NoRow
    THEN UNCHANGED rowVars
    ELSE PutRow(s, Pid(s), state[s][Pid(s)])

WriteRow(s) ==
    /\ At(s, "write")
    /\ ~Collides(s)
    /\ Written(s)
    /\ modified' = [modified EXCEPT ![s] = @ \ {Pid(s)}]
    /\ Advances(s)
    /\ UNCHANGED <<objects, state>>
    /\ InCall

(* Mutant of InsertCollides: the answer of the insert is not looked at.    *)
InsertCollidesUnmarks(s) ==
    /\ At(s, "write")
    /\ Collides(s)
    /\ modified' = [modified EXCEPT ![s] = @ \ {Pid(s)}]
    /\ Advances(s)
    /\ UNCHANGED <<rowVars, objects, state>>
    /\ InCall

InsertCollides(s) ==
    /\ At(s, "write")
    /\ Collides(s)
    /\ Returns(s)
    /\ UNCHANGED <<rowVars, cacheVars>>
    /\ InCall

(* find_by_key takes the first row that has the key.                       *)
SelectByKey(s) ==
    /\ At(s, "select")
    /\ LET rows == {o \in ShortPids : table[o] = call[s].key}
       IN  \/ \E o \in rows : Find(s, o)
           \/ rows = {} /\ Returns(s)   \* NotFound
    /\ UNCHANGED <<rowVars, cacheVars>>
    /\ InCall

(* load_object: object_exists, and then read_object_state.                 *)
LoadObject(s) ==
    /\ At(s, "load")
    /\ IF table[Pid(s)] = NoRow THEN Returns(s) ELSE Goes(s, "read")
    /\ UNCHANGED <<rowVars, cacheVars>>
    /\ InCall

SeesRow(s, o) ==
    /\ state' = [state EXCEPT ![s][o] = table[o]]
    /\ foreign' = [foreign EXCEPT ![s] = @ \ {o}]

(* Mutant of ReadRow: the number of rows is not looked at.                 *)
ReadRowUnchecked(s) ==
    /\ At(s, "read")
    /\ Returns(s)
    /\ SeesRow(s, Pid(s))
    /\ objects' = [objects EXCEPT ![s] = Append(@, Pid(s))]
    /\ UNCHANGED <<table, deleted, modified>>
    /\ InCall

ReadRow(s) ==
    /\ At(s, "read")
    /\ Returns(s)
    /\ IF table[Pid(s)] = NoRow
       THEN UNCHANGED <<objects, state, foreign>>   \* PERSIST_STORE
       ELSE /\ SeesRow(s, Pid(s))
            /\ objects' = [objects EXCEPT ![s] = Append(@, Pid(s))]
    /\ UNCHANGED <<table, deleted, modified>>
    /\ InCall

(* refresh reads every object anew, also one that is modified; the flag    *)
(* stays as it is, and an object without a row ends the call.              *)
RefreshNext(s) ==
    /\ At(s, "refresh")
    /\ ~AtEnd(s)
    /\ IF table[Current(s)] = NoRow
       THEN Returns(s) /\ UNCHANGED <<state, foreign>>
       ELSE Advances(s) /\ SeesRow(s, Current(s))
    /\ UNCHANGED <<table, deleted, objects, modified>>
    /\ InCall

RefreshEnds(s) ==
    /\ At(s, "refresh")
    /\ AtEnd(s)
    /\ Returns(s)
    /\ UNCHANGED <<rowVars, cacheVars>>
    /\ InCall

ExecutesStatement(s) ==
    \/ call[s].at \in {"write", "select", "load", "read"}
    \/ At(s, "refresh") /\ ~AtEnd(s)
    \/ At(s, "flush") /\ ~AtEnd(s) /\ Current(s) \in modified[s]

(* A statement fails and the call raises PERSIST_STORE; of a write it may  *)
(* be the answer alone that is lost.                                       *)
StatementFails(s) ==
    /\ ExecutesStatement(s)
    /\ faults < MaxFaults
    /\ faults' = faults + 1
    /\ Returns(s)
    /\ \/ UNCHANGED rowVars
       \/ At(s, "write") /\ ~Collides(s) /\ Written(s)
    /\ UNCHANGED <<created, cacheVars, calls>>

-----------------------------------------------------------------------------
BeginCall(s) ==
    \/ \E o \in ShortPids : DestroyObject(s, o) \/ FindByShortPid(s, o)
    \/ \E o \in ShortPids, value \in States : Create(s, o, value) \/ SetState(s, o, value)
    \/ \E value \in States : FindObject(s, value)
    \/ Flush(s)
    \/ Refresh(s)

Step(s) ==
    \/ FlushNext(s) \/ FlushEnds(s) \/ WriteRow(s) \/ InsertCollides(s)
    \/ SelectByKey(s) \/ LoadObject(s) \/ ReadRow(s)
    \/ RefreshNext(s) \/ RefreshEnds(s)
    \/ StatementFails(s)

Next == \E s \in Sessions : BeginCall(s) \/ Step(s)

Spec == Init /\ [][Next]_vars

-----------------------------------------------------------------------------
(* What an unmodified incarnation says is what the table says, unless the  *)
(* row was deleted or another session has written it since: no write is    *)
(* lost by a flush that fails half-way, nor when an answer is.             *)
UnmodifiedIsStored ==
    \A s \in Sessions : \A o \in Cached(s) :
        o \notin modified[s] /\ o \notin foreign[s] => table[o] = state[s][o]

(* An object has one incarnation in a session, however it was found.       *)
OneIncarnation == \A s \in Sessions : IsInjective(objects[s])

(* The search by key sees every change the session has made before it.     *)
SelectsAfterFlush == \A s \in Sessions : At(s, "select") => modified[s] = {}

(* What one statement of a call has found out about a row still holds for  *)
(* the next one, although no transaction protects it, as long as nobody    *)
(* has ever deleted the row: no insert meets a row that was not there, no  *)
(* update and no read misses one that was ("the target storage object must *)
(* be exist", PostgreSQLSession.cpp).                                      *)
StatementsAgree ==
    \A s \in Sessions :
        Pid(s) \notin deleted =>
            /\ At(s, "read") => table[Pid(s)] # NoRow
            /\ At(s, "write") => (call[s].exist <=> table[Pid(s)] # NoRow)

(* Only a write takes the mark of a modified object away, and it leaves    *)
(* the object's state in the row, unless the row is deleted.               *)
MarkClearedByWrite ==
    [][\A s \in Sessions : \A o \in modified[s] \ modified'[s] :
          table'[o] = state[s][o] \/ (o \in deleted /\ table'[o] = NoRow)]_vars

-----------------------------------------------------------------------------
(* The inductive strengthening.                                            *)

(* What a call may be while its session has these objects and the table    *)
(* these rows.  The loop of flush leaves no mark behind; a row that was    *)
(* found and is gone was deleted.                                          *)
CallOK(s, c) ==
    /\ c.at = "idle" => c = NoCall
    /\ c.at \in {"load", "read"} => c.pid \in created \ Cached(s)
    /\ c.at = "select" => c.key \in States /\ modified[s] = {}
    /\ c.at \in {"flush", "write"} =>
          \A i \in DOMAIN objects[s] : i < c.next => objects[s][i] \notin modified[s]
    /\ c.at = "write" =>
          /\ c.next <= Len(objects[s])
          /\ c.pid = objects[s][c.next]
          /\ c.pid \in modified[s]
          /\ c.exist /\ table[c.pid] = NoRow => c.pid \in foreign[s]
          /\ c.pid \notin deleted => (c.exist <=> table[c.pid] # NoRow)
    /\ c.at = "read" /\ c.pid \notin deleted => table[c.pid] # NoRow

(* Until its row is first inserted an object is known to its creator only. *)
Unborn(o) == table[o] = NoRow /\ o \notin deleted

RowsOK ==
    /\ \A o \in ShortPids : table[o] # NoRow => o \in created
    /\ \A s, t \in Sessions : \A o \in Cached(s) \cap Cached(t) : Unborn(o) => s = t

StoreInv ==
    /\ TypeOK
    /\ \A s \in Sessions : CallOK(s, call[s])
    /\ \A s \in Sessions : modified[s] \subseteq Cached(s)
    /\ OneIncarnation
    /\ RowsOK
    /\ UnmodifiedIsStored
=============================================================================
