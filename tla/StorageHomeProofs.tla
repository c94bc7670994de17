-------------------------- MODULE StorageHomeProofs --------------------------
(***************************************************************************)
(* The cache of the persistent state service against its table: proofs for *)
(* any number of sessions, objects, calls and failing statements.          *)
(***************************************************************************)
EXTENDS StorageHome, SequenceTheorems, TLAPS

(***************************************************************************)
(* Lists of objects.                                                       *)
(***************************************************************************)
LEMMA AppendObject ==
  ASSUME NEW S, NEW seq \in Seq(S), NEW o \in S, o \notin Range(seq)
  PROVE  /\ Append(seq, o) \in Seq(S)
         /\ Range(Append(seq, o)) = Range(seq) \cup {o}
         /\ Len(Append(seq, o)) = Len(seq) + 1
         /\ \A i \in DOMAIN seq : Append(seq, o)[i] = seq[i]
         /\ DOMAIN Append(seq, o) = DOMAIN seq \cup {Len(seq) + 1}
         /\ Append(seq, o)[Len(seq) + 1] = o
         /\ IsInjective(seq) => IsInjective(Append(seq, o))
<1>1. /\ Append(seq, o) \in Seq(S)
      /\ Len(Append(seq, o)) = Len(seq) + 1
      /\ \A i \in 1 .. Len(seq) : Append(seq, o)[i] = seq[i]
      /\ Append(seq, o)[Len(seq) + 1] = o
  BY AppendProperties
<1>2. /\ DOMAIN seq = 1 .. Len(seq)
      /\ DOMAIN Append(seq, o) = 1 .. (Len(seq) + 1)
      /\ Len(seq) \in Nat
  BY <1>1, LenProperties
<1>3. DOMAIN Append(seq, o) = DOMAIN seq \cup {Len(seq) + 1}
  BY <1>2
<1>4. Range(Append(seq, o)) = Range(seq) \cup {o}
  BY <1>1, <1>2, <1>3 DEF Range
<1>5. ASSUME IsInjective(seq) PROVE IsInjective(Append(seq, o))
  <2> SUFFICES ASSUME NEW a \in DOMAIN seq \cup {Len(seq) + 1},
                      NEW b \in DOMAIN seq \cup {Len(seq) + 1},
                      Append(seq, o)[a] = Append(seq, o)[b]
               PROVE  a = b
    BY <1>3 DEF IsInjective
  <2>1. CASE a \in DOMAIN seq /\ b \in DOMAIN seq
    BY <1>1, <1>2, <1>5, <2>1 DEF IsInjective
  <2>2. CASE a \in DOMAIN seq /\ b = Len(seq) + 1
    BY <1>1, <1>2, <2>2 DEF Range
  <2>3. CASE a = Len(seq) + 1 /\ b \in DOMAIN seq
    BY <1>1, <1>2, <2>3 DEF Range
  <2> QED
    BY <2>1, <2>2, <2>3
<1> QED
  BY <1>1, <1>2, <1>3, <1>4, <1>5

LEMMA CachedCreated ==
  ASSUME TypeOK, NEW s \in Sessions
  PROVE  /\ Cached(s) \subseteq created
         /\ \A i \in DOMAIN objects[s] : objects[s][i] \in Cached(s)
         /\ DOMAIN objects[s] = 1 .. Len(objects[s])
         /\ Len(objects[s]) \in Nat
         /\ objects[s] \in Seq(created)
<1>1. objects[s] \in Seq(created)
  BY DEF TypeOK
<1> QED
  BY <1>1, LenProperties, ElementOfSeq DEF Cached, Range

(***************************************************************************)
(* A step that only moves a call.                                          *)
(***************************************************************************)
LEMMA NoCallOK ==
  ASSUME NEW s \in Sessions
  PROVE  NoCall \in Call /\ CallOK(s, NoCall)
BY DEF NoCall, Call, Place, CallOK

LEMMA CallMoves ==
  ASSUME StoreInv, NEW s \in Sessions, NEW c \in Call, CallOK(s, c),
         call' = [call EXCEPT ![s] = c],
         UNCHANGED <<rowVars, created, cacheVars>>,
         calls' \in Nat, faults' \in Nat
  PROVE  StoreInv'
<1> USE DEF rowVars, cacheVars
<1>1. \A t \in Sessions : Cached(t)' = Cached(t)
  BY DEF Cached
<1>2. TypeOK'
  BY <1>1 DEF StoreInv, TypeOK
<1>3. (\A t \in Sessions : CallOK(t, call[t]))'
  <2> SUFFICES ASSUME NEW t \in Sessions PROVE CallOK(t, call[t])'
    OBVIOUS
  <2>1. CallOK(t, call'[t])
    BY DEF StoreInv, TypeOK
  <2> QED
    BY <2>1, <1>1 DEF CallOK
<1>4. (\A t \in Sessions : modified[t] \subseteq Cached(t))'
  BY <1>1 DEF StoreInv
<1>5. OneIncarnation' /\ RowsOK' /\ UnmodifiedIsStored'
  BY <1>1 DEF StoreInv, OneIncarnation, RowsOK, Unborn, UnmodifiedIsStored
<1> QED
  BY <1>2, <1>3, <1>4, <1>5 DEF StoreInv

(* The records a call becomes.                                             *)
LEMMA CallRecords ==
  ASSUME NEW c \in Call, NEW p \in Place
  PROVE  /\ [c EXCEPT !.at = p] \in Call
         /\ [c EXCEPT !.at = p, !.next = @ + 1] \in Call
         /\ \A o \in ShortPids : [c EXCEPT !.at = p, !.pid = o] \in Call
         /\ \A v \in States : [c EXCEPT !.at = p, !.key = v] \in Call
         /\ \A o \in ShortPids, b \in BOOLEAN :
               [c EXCEPT !.at = p, !.pid = o, !.exist = b] \in Call
<1>1. [c EXCEPT !.at = p] \in Call
  BY DEF Call
<1>2. [c EXCEPT !.at = p, !.next = @ + 1] \in Call
  <2>1. c.next + 1 \in Nat \ {0}
    BY DEF Call
  <2> QED
    BY <2>1 DEF Call
<1>3. \A o \in ShortPids : [c EXCEPT !.at = p, !.pid = o] \in Call
  BY DEF Call
<1>4. \A v \in States : [c EXCEPT !.at = p, !.key = v] \in Call
  BY DEF Call
<1>5. \A o \in ShortPids, b \in BOOLEAN : [c EXCEPT !.at = p, !.pid = o, !.exist = b] \in Call
  BY DEF Call
<1> QED
  BY <1>1, <1>2, <1>3, <1>4, <1>5

LEMMA CallsAreRecords ==
  ASSUME StoreInv, NEW s \in Sessions
  PROVE  /\ call[s] \in Call
         /\ CallOK(s, call[s])
         /\ calls \in Nat /\ faults \in Nat
         /\ NoCall.next = 1
         /\ \A p \in Place : Goes(s, p) => call' = [call EXCEPT ![s] = [call[s] EXCEPT !.at = p]]
BY DEF StoreInv, TypeOK, NoCall, Goes

LEMMA FlushBegins ==
  ASSUME StoreInv, NEW s \in Sessions, Flush(s)
  PROVE  StoreInv'
<1> DEFINE c == [call[s] EXCEPT !.at = "flush"]
<1>0. "flush" \in Place
  BY DEF Place
<1>1. c \in Call /\ call' = [call EXCEPT ![s] = c]
  BY <1>0, CallRecords, CallsAreRecords DEF Flush
<1>2. CallOK(s, c)
  <2>1. c.at = "flush" /\ c.next = 1
    BY CallsAreRecords DEF Flush, Begins, At, CallOK, Call
  <2>2. \A i \in DOMAIN objects[s] : ~(i < 1)
    BY CachedCreated DEF StoreInv
  <2> QED
    BY <2>1, <2>2 DEF CallOK
<1>3. calls' \in Nat /\ faults' \in Nat
  BY CallsAreRecords DEF Flush, Begins
<1> QED
  BY <1>1, <1>2, <1>3, CallMoves DEF Flush

LEMMA FindObjectBegins ==
  ASSUME StoreInv, NEW s \in Sessions, NEW value \in States, FindObject(s, value)
  PROVE  StoreInv'
<1> DEFINE c == [call[s] EXCEPT !.at = "flush", !.key = value]
<1>0. "flush" \in Place
  BY DEF Place
<1>1. c \in Call /\ call' = [call EXCEPT ![s] = c]
  BY <1>0, CallRecords, CallsAreRecords DEF FindObject
<1>2. CallOK(s, c)
  <2>1. c.at = "flush" /\ c.next = 1
    BY CallsAreRecords DEF FindObject, Begins, At, CallOK, Call
  <2>2. \A i \in DOMAIN objects[s] : ~(i < 1)
    BY CachedCreated DEF StoreInv
  <2> QED
    BY <2>1, <2>2 DEF CallOK
<1>3. calls' \in Nat /\ faults' \in Nat
  BY CallsAreRecords DEF FindObject, Begins
<1> QED
  BY <1>1, <1>2, <1>3, CallMoves DEF FindObject

LEMMA RefreshBegins ==
  ASSUME StoreInv, NEW s \in Sessions, Refresh(s)
  PROVE  StoreInv'
<1> DEFINE c == [call[s] EXCEPT !.at = "refresh"]
<1>0. "refresh" \in Place
  BY DEF Place
<1>1. c \in Call /\ call' = [call EXCEPT ![s] = c]
  BY <1>0, CallRecords, CallsAreRecords DEF Refresh
<1>2. CallOK(s, c)
  BY CallsAreRecords DEF CallOK, Call
<1>3. calls' \in Nat /\ faults' \in Nat
  BY CallsAreRecords DEF Refresh, Begins
<1> QED
  BY <1>1, <1>2, <1>3, CallMoves DEF Refresh

(* Every call that ends without a change.                                  *)
LEMMA CallReturns ==
  ASSUME StoreInv, NEW s \in Sessions, Returns(s),
         UNCHANGED <<rowVars, created, cacheVars>>, calls' \in Nat, faults' \in Nat
  PROVE  StoreInv'
BY NoCallOK, CallMoves DEF Returns

LEMMA FindMoves ==
  ASSUME StoreInv, NEW s \in Sessions, NEW o \in created, Find(s, o),
         UNCHANGED <<rowVars, created, cacheVars>>, calls' \in Nat, faults' \in Nat
  PROVE  StoreInv'
<1>1. CASE o \in Cached(s)
  BY <1>1, CallReturns DEF Find
<1>2. CASE o \notin Cached(s)
  <2> DEFINE c == [call[s] EXCEPT !.at = "load", !.pid = o]
  <2>0. "load" \in Place /\ o \in ShortPids
    BY DEF Place, StoreInv, TypeOK
  <2>1. c \in Call /\ call' = [call EXCEPT ![s] = c]
    BY <1>2, <2>0, CallRecords, CallsAreRecords DEF Find
  <2>2. CallOK(s, c)
    BY <1>2, CallsAreRecords DEF CallOK, Call
  <2> QED
    BY <2>1, <2>2, CallMoves
<1> QED
  BY <1>1, <1>2

LEMMA FindByShortPidBegins ==
  ASSUME StoreInv, NEW s \in Sessions, NEW o \in ShortPids, FindByShortPid(s, o)
  PROVE  StoreInv'
<1>1. calls' \in Nat /\ faults' \in Nat
  BY CallsAreRecords DEF FindByShortPid, Begins
<1> QED
  BY <1>1, FindMoves DEF FindByShortPid

LEMMA SelectByKeyMoves ==
  ASSUME StoreInv, NEW s \in Sessions, SelectByKey(s)
  PROVE  StoreInv'
<1>1. UNCHANGED <<rowVars, created, cacheVars>> /\ calls' \in Nat /\ faults' \in Nat
  BY CallsAreRecords DEF SelectByKey, InCall
<1>2. At(s, "select") /\ call[s].key \in States
  BY CallsAreRecords DEF SelectByKey, At, CallOK
<1>3. \A o \in ShortPids : table[o] = call[s].key => o \in created
  BY <1>2, NamesAssumption DEF StoreInv, RowsOK
<1>4. Returns(s) \/ \E o \in created : Find(s, o)
  BY <1>3 DEF SelectByKey
<1> QED
  BY <1>1, <1>4, FindMoves, CallReturns

LEMMA LoadObjectMoves ==
  ASSUME StoreInv, NEW s \in Sessions, LoadObject(s)
  PROVE  StoreInv'
<1>1. UNCHANGED <<rowVars, created, cacheVars>> /\ calls' \in Nat /\ faults' \in Nat
  BY CallsAreRecords DEF LoadObject, InCall
<1>2. CASE Returns(s)
  BY <1>1, <1>2, CallReturns
<1>3. CASE table[Pid(s)] # NoRow /\ Goes(s, "read")
  <2> DEFINE c == [call[s] EXCEPT !.at = "read"]
  <2>0. "read" \in Place
    BY DEF Place
  <2>1. c \in Call /\ call' = [call EXCEPT ![s] = c]
    BY <1>3, <2>0, CallRecords, CallsAreRecords
  <2>2. CallOK(s, c)
    BY <1>3, CallsAreRecords DEF CallOK, Call, LoadObject, At, Pid
  <2> QED
    BY <1>1, <2>1, <2>2, CallMoves
<1> QED
  BY <1>2, <1>3 DEF LoadObject

LEMMA FlushNextMoves ==
  ASSUME StoreInv, NEW s \in Sessions, FlushNext(s)
  PROVE  StoreInv'
<1>1. UNCHANGED <<rowVars, created, cacheVars>> /\ calls' \in Nat /\ faults' \in Nat
  BY CallsAreRecords DEF FlushNext, InCall
<1>2. /\ call[s].at = "flush"
      /\ call[s].next \in Nat \ {0}
      /\ call[s].next \in DOMAIN objects[s]
      /\ call[s].next <= Len(objects[s])
      /\ Current(s) \in ShortPids
      /\ Current(s) = objects[s][call[s].next]
      /\ \A i \in DOMAIN objects[s] : i < call[s].next => objects[s][i] \notin modified[s]
      /\ DOMAIN objects[s] \subseteq Nat
  BY CallsAreRecords, CachedCreated
     DEF FlushNext, At, AtEnd, Call, Current, CallOK, StoreInv, TypeOK
<1>3. CASE Current(s) \in modified[s]
  <2> DEFINE b == table[Current(s)] # NoRow
             c == [call[s] EXCEPT !.at = "write", !.pid = Current(s), !.exist = b]
  <2>0. "write" \in Place /\ b \in BOOLEAN
    BY DEF Place
  <2>1. c \in Call /\ call' = [call EXCEPT ![s] = c]
    BY <1>2, <1>3, <2>0, CallRecords, CallsAreRecords DEF FlushNext
  <2>2. /\ c.at = "write" /\ c.next = call[s].next /\ c.pid = Current(s)
        /\ c.exist = b /\ c.key = call[s].key
    BY CallsAreRecords DEF Call
  <2>3. CallOK(s, c)
    BY <1>2, <1>3, <2>2 DEF CallOK
  <2> QED
    BY <1>1, <2>1, <2>3, CallMoves
<1>4. CASE Current(s) \notin modified[s]
  <2> DEFINE c == [call[s] EXCEPT !.at = "flush", !.next = @ + 1]
  <2>0. "flush" \in Place
    BY DEF Place
  <2>1. c \in Call /\ call' = [call EXCEPT ![s] = c]
    BY <1>2, <1>4, <2>0, CallRecords, CallsAreRecords DEF FlushNext, Advances
  <2>2. c.at = "flush" /\ c.next = call[s].next + 1 /\ c.key = call[s].key
    BY CallsAreRecords DEF Call
  <2>3. \A i \in DOMAIN objects[s] : i < c.next => objects[s][i] \notin modified[s]
    BY <1>2, <1>4, <2>2
  <2>4. CallOK(s, c)
    BY <2>2, <2>3 DEF CallOK
  <2> QED
    BY <1>1, <2>1, <2>4, CallMoves
<1> QED
  BY <1>3, <1>4

(* The loop is over: nothing is marked.                                    *)
LEMMA FlushEndsMoves ==
  ASSUME StoreInv, NEW s \in Sessions, FlushEnds(s)
  PROVE  StoreInv'
<1>1. UNCHANGED <<rowVars, created, cacheVars>> /\ calls' \in Nat /\ faults' \in Nat
  BY CallsAreRecords DEF FlushEnds, InCall
<1>2. CASE Returns(s)
  BY <1>1, <1>2, CallReturns
<1>3. CASE call[s].key # NoKey /\ Goes(s, "select")
  <2> DEFINE c == [call[s] EXCEPT !.at = "select"]
  <2>0. "select" \in Place
    BY DEF Place
  <2>1. c \in Call /\ call' = [call EXCEPT ![s] = c]
    BY <1>3, <2>0, CallRecords, CallsAreRecords
  <2>2. \A i \in DOMAIN objects[s] : objects[s][i] \notin modified[s]
    BY CallsAreRecords, CachedCreated DEF FlushEnds, At, AtEnd, Call, CallOK, StoreInv
  <2>3. modified[s] = {}
    BY <2>2 DEF StoreInv, Cached, Range
  <2>4. CallOK(s, c)
    BY <1>3, <2>3, CallsAreRecords DEF CallOK, Call
  <2> QED
    BY <1>1, <2>1, <2>4, CallMoves
<1> QED
  BY <1>2, <1>3 DEF FlushEnds

LEMMA RefreshEndsMoves ==
  ASSUME StoreInv, NEW s \in Sessions, RefreshEnds(s) \/ InsertCollides(s)
  PROVE  StoreInv'
<1>1. UNCHANGED <<rowVars, created, cacheVars>> /\ calls' \in Nat /\ faults' \in Nat
  BY CallsAreRecords DEF RefreshEnds, InsertCollides, InCall
<1>2. Returns(s)
  BY DEF RefreshEnds, InsertCollides
<1> QED
  BY <1>1, <1>2, CallReturns

(***************************************************************************)
(* A step that appends to the objects: a creation, or a row that is read.  *)
(***************************************************************************)
LEMMA ObjectAppended ==
  ASSUME StoreInv, NEW s \in Sessions, NEW o \in ShortPids \ Cached(s), NEW c \in Call,
         c.at = "idle", c = NoCall,
         call' = [call EXCEPT ![s] = c],
         created' = created \cup {o},
         objects' = [objects EXCEPT ![s] = Append(@, o)],
         state' = [state EXCEPT ![s][o] = state'[s][o]], state'[s][o] \in States,
         modified' = [modified EXCEPT ![s] = modified'[s]],
         modified'[s] = modified[s] \/ modified'[s] = modified[s] \cup {o},
         UNCHANGED <<table, deleted>>,
         foreign' = [foreign EXCEPT ![s] = foreign'[s]],
         foreign'[s] = foreign[s] \/ foreign'[s] = foreign[s] \ {o},
         o \notin modified'[s] => table[o] = state'[s][o],
         Unborn(o) => o \notin created,
         calls' \in Nat, faults' \in Nat
  PROVE  StoreInv'
<1>1. /\ \A t \in Sessions \ {s} : /\ objects'[t] = objects[t] /\ Cached(t)' = Cached(t)
                                   /\ modified'[t] = modified[t] /\ foreign'[t] = foreign[t]
                                   /\ state'[t] = state[t] /\ call'[t] = call[t]
      /\ call'[s] = NoCall
      /\ objects'[s] = Append(objects[s], o)
      /\ \A p \in ShortPids \ {o} : state'[s][p] = state[s][p]
  BY DEF StoreInv, TypeOK, Cached
<1>2. /\ objects[s] \in Seq(created \cup {o})
      /\ o \notin Range(objects[s])
      /\ IsInjective(objects[s])
  BY SeqMonotonic, CachedCreated DEF Cached, StoreInv, OneIncarnation
<1>3. /\ objects'[s] \in Seq(created')
      /\ Cached(s)' = Cached(s) \cup {o}
      /\ IsInjective(objects'[s])
  BY <1>1, <1>2, AppendObject DEF Cached
<1>4. TypeOK'
  <2>1. \A t \in Sessions : objects'[t] \in Seq(created')
    BY <1>1, <1>3, SeqMonotonic, CachedCreated DEF StoreInv
  <2>2. objects' \in [Sessions -> Seq(created')]
    BY <2>1 DEF StoreInv, TypeOK
  <2>3. state' \in [Sessions -> [ShortPids -> States \cup {NoRow}]]
    <3>1. \A v \in States : [state EXCEPT ![s][o] = v] \in
                              [Sessions -> [ShortPids -> States \cup {NoRow}]]
      BY DEF StoreInv, TypeOK
    <3> QED
      BY <3>1
  <2>4. (\A t \in Sessions : \A p \in Cached(t) : state[t][p] \in States)'
    BY <1>1, <1>3, CachedCreated DEF StoreInv, TypeOK
  <2>5. modified' \in [Sessions -> SUBSET created']
    BY DEF StoreInv, TypeOK
  <2>6. call' \in [Sessions -> Call]
    BY DEF StoreInv, TypeOK
  <2>7. foreign' \in [Sessions -> SUBSET ShortPids]
    BY DEF StoreInv, TypeOK
  <2> QED
    BY <2>2, <2>3, <2>4, <2>5, <2>6, <2>7 DEF StoreInv, TypeOK
<1>5. (\A t \in Sessions : CallOK(t, call[t]))'
  <2> SUFFICES ASSUME NEW t \in Sessions PROVE CallOK(t, call[t])'
    OBVIOUS
  <2>1. CASE t = s
    BY <1>1, <2>1 DEF CallOK, NoCall
  <2>2. CASE t # s
    <3>1. CallOK(t, call[t])
      BY DEF StoreInv
    <3> QED
      BY <1>1, <2>2, <3>1 DEF CallOK
  <2> QED
    BY <2>1, <2>2
<1>6. (\A t \in Sessions : modified[t] \subseteq Cached(t))'
  BY <1>1, <1>3 DEF StoreInv
<1>7. OneIncarnation'
  BY <1>1, <1>3 DEF StoreInv, OneIncarnation
<1>8. RowsOK'
  <2>1. (\A p \in ShortPids : table[p] # NoRow => p \in created)'
    BY DEF StoreInv, RowsOK
  <2>2. ASSUME NEW t \in Sessions, NEW u \in Sessions, NEW p \in Cached(t)' \cap Cached(u)',
               Unborn(p)'
        PROVE  t = u
    <3>1. Unborn(p)
      BY <2>2 DEF Unborn
    <3>2. CASE p = o
      BY <3>1, <3>2, <1>1, CachedCreated, <2>2 DEF StoreInv
    <3>3. CASE p # o
      <4>1. p \in Cached(t) \cap Cached(u)
        BY <1>1, <1>3, <2>2, <3>3
      <4> QED
        BY <4>1, <3>1 DEF StoreInv, RowsOK
    <3> QED
      BY <3>2, <3>3
  <2> QED
    BY <2>1, <2>2 DEF RowsOK
<1>9. UnmodifiedIsStored'
  <2> SUFFICES ASSUME NEW t \in Sessions, NEW p \in Cached(t)',
                      p \notin modified'[t], p \notin foreign'[t]
               PROVE  table'[p] = state'[t][p]
    BY DEF UnmodifiedIsStored
  <2>1. CASE t = s /\ p = o
    BY <2>1
  <2>2. CASE t # s \/ p # o
    <3>1. p \in Cached(t) /\ p \in ShortPids
      BY <2>2, <1>1, <1>3, CachedCreated DEF StoreInv, TypeOK
    <3>2. p \notin modified[t] /\ p \notin foreign[t] /\ state'[t][p] = state[t][p]
      BY <2>2, <3>1, <1>1
    <3> QED
      BY <3>1, <3>2 DEF StoreInv, UnmodifiedIsStored
  <2> QED
    BY <2>1, <2>2
<1> QED
  BY <1>4, <1>5, <1>6, <1>7, <1>8, <1>9 DEF StoreInv

LEMMA CreateAppends ==
  ASSUME StoreInv, NEW s \in Sessions, NEW o \in ShortPids, NEW value \in States,
         Create(s, o, value)
  PROVE  StoreInv'
<1>1. o \notin Cached(s)
  BY CachedCreated DEF StoreInv, Create
<1>2. call[s] = NoCall /\ call' = [call EXCEPT ![s] = NoCall] /\ NoCall \in Call
  BY CallsAreRecords, NoCallOK DEF Create, Begins, At, CallOK, StoreInv, TypeOK
<1>3. /\ state'[s][o] = value
      /\ modified'[s] = modified[s] \cup {o}
      /\ state' = [state EXCEPT ![s][o] = state'[s][o]]
      /\ modified' = [modified EXCEPT ![s] = modified'[s]]
      /\ foreign' = [foreign EXCEPT ![s] = foreign'[s]]
      /\ foreign'[s] = foreign[s]
  BY DEF Create, StoreInv, TypeOK, rowVars
<1>4. calls' \in Nat /\ faults' \in Nat
  BY CallsAreRecords DEF Create, Begins
<1>5. NoCall.at = "idle" /\ UNCHANGED <<table, deleted>>
  BY DEF NoCall, Create, rowVars
<1>6. /\ created' = created \cup {o} /\ o \notin created
      /\ objects' = [objects EXCEPT ![s] = Append(@, o)]
  BY DEF Create
<1> QED
  BY <1>1, <1>2, <1>3, <1>4, <1>5, <1>6, ObjectAppended

LEMMA ReadRowAppends ==
  ASSUME StoreInv, NEW s \in Sessions, ReadRow(s)
  PROVE  StoreInv'
<1>1. /\ UNCHANGED <<table, deleted, modified, created>> /\ calls' \in Nat /\ faults' \in Nat
      /\ Returns(s)
  BY CallsAreRecords DEF ReadRow, InCall
<1>2. CASE UNCHANGED <<objects, state, foreign>>
  BY <1>1, <1>2, CallReturns DEF rowVars, cacheVars
<1>3. CASE /\ table[Pid(s)] # NoRow
           /\ SeesRow(s, Pid(s))
           /\ objects' = [objects EXCEPT ![s] = Append(@, Pid(s))]
  <2> DEFINE o == Pid(s)
  <2>1. o \in created /\ o \in ShortPids \ Cached(s)
    BY CallsAreRecords DEF ReadRow, At, CallOK, Pid, StoreInv, TypeOK
  <2>2. table[o] \in States
    BY <1>3, <2>1 DEF StoreInv, TypeOK
  <2>3. /\ state'[s][o] = table[o]
        /\ state' = [state EXCEPT ![s][o] = state'[s][o]]
        /\ modified' = [modified EXCEPT ![s] = modified'[s]]
        /\ modified'[s] = modified[s]
        /\ foreign' = [foreign EXCEPT ![s] = foreign'[s]]
        /\ foreign'[s] = foreign[s] \ {o}
    BY <1>1, <1>3, <2>1 DEF SeesRow, StoreInv, TypeOK
  <2>4. call' = [call EXCEPT ![s] = NoCall] /\ NoCall \in Call /\ NoCall.at = "idle"
    BY <1>1, NoCallOK DEF Returns, NoCall
  <2>5. created' = created \cup {o} /\ ~Unborn(o)
    BY <1>1, <1>3, <2>1 DEF Unborn
  <2> QED
    BY <1>1, <1>3, <2>1, <2>2, <2>3, <2>4, <2>5, ObjectAppended
<1> QED
  BY <1>2, <1>3 DEF ReadRow

(***************************************************************************)
(* A step that changes a state, and neither the table nor the objects.     *)
(***************************************************************************)
LEMMA StateChanges ==
  ASSUME StoreInv, NEW s \in Sessions, NEW o \in Cached(s), NEW v \in States,
         NEW c \in Call,
         c.at \in {"idle", "refresh"}, c.at = "idle" => c = NoCall,
         call' = [call EXCEPT ![s] = c],
         state' = [state EXCEPT ![s][o] = v],
         \/ /\ modified' = [modified EXCEPT ![s] = @ \cup {o}]
            /\ foreign' = foreign
         \/ /\ modified' = modified /\ table[o] = v
            /\ foreign' = [foreign EXCEPT ![s] = @ \ {o}],
         UNCHANGED <<table, deleted, created, objects>>,
         calls' \in Nat, faults' \in Nat
  PROVE  StoreInv'
<1>1. o \in created /\ o \in ShortPids
  BY CachedCreated DEF StoreInv, TypeOK
<1>2. /\ \A t \in Sessions : Cached(t)' = Cached(t)
      /\ \A t \in Sessions \ {s} : /\ call'[t] = call[t] /\ modified'[t] = modified[t]
                                   /\ foreign'[t] = foreign[t] /\ state'[t] = state[t]
      /\ call'[s] = c /\ state'[s][o] = v
      /\ \A p \in ShortPids \ {o} : state'[s][p] = state[s][p]
      /\ \A p \in ShortPids \ {o} : /\ p \in modified'[s] <=> p \in modified[s]
                                    /\ p \in foreign'[s] <=> p \in foreign[s]
      /\ o \in modified'[s] \/ table[o] = v
  BY <1>1 DEF StoreInv, TypeOK, Cached
<1>3. TypeOK'
  <2>1. state' \in [Sessions -> [ShortPids -> States \cup {NoRow}]]
    BY <1>1 DEF StoreInv, TypeOK
  <2>2. (\A t \in Sessions : \A p \in Cached(t) : state[t][p] \in States)'
    BY <1>2, CachedCreated DEF StoreInv, TypeOK
  <2>3. modified' \in [Sessions -> SUBSET created]
    <3>1. modified[s] \cup {o} \in SUBSET created /\ modified \in [Sessions -> SUBSET created]
      BY <1>1 DEF StoreInv, TypeOK
    <3>2. modified' = modified \/ modified' = [modified EXCEPT ![s] = modified[s] \cup {o}]
      OBVIOUS
    <3> QED
      BY <3>1, <3>2
  <2>4. foreign' \in [Sessions -> SUBSET ShortPids]
    BY DEF StoreInv, TypeOK
  <2> QED
    BY <2>1, <2>2, <2>3, <2>4 DEF StoreInv, TypeOK
<1>4. (\A t \in Sessions : CallOK(t, call[t]))'
  <2> SUFFICES ASSUME NEW t \in Sessions PROVE CallOK(t, call[t])'
    OBVIOUS
  <2>1. CASE t = s
    BY <1>2, <2>1 DEF CallOK
  <2>2. CASE t # s
    <3>1. CallOK(t, call[t])
      BY DEF StoreInv
    <3> QED
      BY <1>2, <2>2, <3>1 DEF CallOK
  <2> QED
    BY <2>1, <2>2
<1>5. (\A t \in Sessions : modified[t] \subseteq Cached(t))'
  <2> SUFFICES ASSUME NEW t \in Sessions, NEW p \in modified'[t] PROVE p \in Cached(t)
    BY <1>2
  <2>1. modified[t] \subseteq Cached(t) /\ p \in ShortPids
    BY <1>3 DEF StoreInv, TypeOK
  <2> QED
    BY <1>2, <2>1
<1>6. OneIncarnation' /\ RowsOK'
  BY <1>2 DEF StoreInv, OneIncarnation, RowsOK, Unborn
<1>7. UnmodifiedIsStored'
  <2> SUFFICES ASSUME NEW t \in Sessions, NEW p \in Cached(t)',
                      p \notin modified'[t], p \notin foreign'[t]
               PROVE  table'[p] = state'[t][p]
    BY DEF UnmodifiedIsStored
  <2>0. p \in Cached(t) /\ p \in ShortPids
    BY <1>2, CachedCreated DEF StoreInv, TypeOK
  <2>1. CASE t = s /\ p = o
    BY <2>1, <1>2
  <2>2. CASE t # s \/ p # o
    <3>1. p \notin modified[t] /\ p \notin foreign[t] /\ state'[t][p] = state[t][p]
      BY <2>0, <2>2, <1>2
    <3> QED
      BY <2>0, <3>1 DEF StoreInv, UnmodifiedIsStored
  <2> QED
    BY <2>1, <2>2
<1> QED
  BY <1>3, <1>4, <1>5, <1>6, <1>7 DEF StoreInv

LEMMA SetStateMarks ==
  ASSUME StoreInv, NEW s \in Sessions, NEW o \in ShortPids, NEW value \in States,
         SetState(s, o, value)
  PROVE  StoreInv'
<1>1. call[s] = NoCall /\ call' = [call EXCEPT ![s] = NoCall] /\ NoCall \in Call
  BY CallsAreRecords, NoCallOK DEF SetState, Begins, At, CallOK, StoreInv, TypeOK
<1>2. calls' \in Nat /\ faults' \in Nat
  BY CallsAreRecords DEF SetState, Begins
<1>3. NoCall.at = "idle"
  BY DEF NoCall
<1>4. /\ o \in Cached(s)
      /\ state' = [state EXCEPT ![s][o] = value]
      /\ modified' = [modified EXCEPT ![s] = @ \cup {o}]
      /\ UNCHANGED <<table, deleted, foreign, created, objects>>
  BY DEF SetState, rowVars
<1> QED
  BY <1>1, <1>2, <1>3, <1>4, StateChanges

LEMMA RefreshNextReads ==
  ASSUME StoreInv, NEW s \in Sessions, RefreshNext(s)
  PROVE  StoreInv'
<1>1. UNCHANGED <<table, deleted, objects, modified, created>> /\ calls' \in Nat /\ faults' \in Nat
  BY CallsAreRecords DEF RefreshNext, InCall
<1>2. CASE Returns(s) /\ UNCHANGED <<state, foreign>>
  BY <1>1, <1>2, CallReturns DEF rowVars, cacheVars
<1>3. CASE table[Current(s)] # NoRow /\ Advances(s) /\ SeesRow(s, Current(s))
  <2> DEFINE c == [call[s] EXCEPT !.at = "refresh", !.next = @ + 1]
  <2>0. "refresh" \in Place
    BY DEF Place
  <2>1. c \in Call /\ c.at = "refresh" /\ call' = [call EXCEPT ![s] = c]
    <3>1. c \in Call
      BY <2>0, CallRecords, CallsAreRecords
    <3>2. call[s].at = "refresh"
      BY DEF RefreshNext, At
    <3>3. c.at = "refresh"
      BY CallsAreRecords DEF Call
    <3> QED
      BY <1>3, <3>1, <3>2, <3>3, CallsAreRecords DEF Advances
  <2>2. Current(s) \in Cached(s) /\ Current(s) \in ShortPids
    BY CallsAreRecords, CachedCreated
       DEF RefreshNext, AtEnd, Call, Current, StoreInv, TypeOK
  <2>3. table[Current(s)] \in States
    BY <1>3, <2>2 DEF StoreInv, TypeOK
  <2>4. /\ state' = [state EXCEPT ![s][Current(s)] = table[Current(s)]]
        /\ foreign' = [foreign EXCEPT ![s] = @ \ {Current(s)}]
    BY <1>3 DEF SeesRow
  <2> QED
    BY <1>1, <2>1, <2>2, <2>3, <2>4, StateChanges
<1> QED
  BY <1>2, <1>3 DEF RefreshNext

(***************************************************************************)
(* The statements that change the table.                                   *)
(***************************************************************************)

(* What a write leaves: the row has the object's state, or it was deleted  *)
(* and the session does not claim to know it; all others know less.        *)
LEMMA RowWritten ==
  ASSUME StoreInv, NEW s \in Sessions, At(s, "write"), ~Collides(s), Written(s),
         UNCHANGED <<created, objects, state>>
  PROVE  /\ Pid(s) \in modified[s] /\ Pid(s) \in Cached(s) /\ Pid(s) \in ShortPids
         /\ table' \in [ShortPids -> States \cup {NoRow}]
         /\ foreign' \in [Sessions -> SUBSET ShortPids]
         /\ deleted' = deleted
         /\ \A p \in ShortPids \ {Pid(s)} :
               /\ table'[p] = table[p]
               /\ \A t \in Sessions : p \in foreign'[t] <=> p \in foreign[t]
         /\ \/ table'[Pid(s)] = state[s][Pid(s)]
            \/ /\ table'[Pid(s)] = NoRow /\ Pid(s) \in deleted
               /\ Pid(s) \in foreign'[s]
         /\ \A t \in Sessions \ {s} : 
               \/ Pid(s) \in foreign'[t]
               \/ foreign'[t] = foreign[t] /\ table' = table
         /\ table[Pid(s)] # NoRow => table'[Pid(s)] # NoRow
         /\ RowsOK'
         /\ \A t \in Sessions \ {s} :
               call'[t] = call[t] /\ modified'[t] = modified[t] => CallOK(t, call[t])'
<1> DEFINE o == Pid(s)
<1>1. /\ o \in modified[s] /\ o \in Cached(s) /\ o \in ShortPids /\ o \in created
      /\ call[s].exist /\ table[o] = NoRow => o \in foreign[s]
      /\ o \notin deleted => (call[s].exist <=> table[o] # NoRow)
      /\ state[s][o] \in States
  BY CallsAreRecords, CachedCreated DEF At, CallOK, Pid, StoreInv, TypeOK
<1>2. /\ table \in [ShortPids -> States \cup {NoRow}]
      /\ foreign \in [Sessions -> SUBSET ShortPids]
  BY DEF StoreInv, TypeOK
<1>3. CASE call[s].exist /\ table[o] = NoRow /\ UNCHANGED rowVars
  <2>1. RowsOK'
    BY <1>3 DEF StoreInv, RowsOK, Unborn, Cached, rowVars
  <2>2. ASSUME NEW t \in Sessions, call'[t] = call[t], modified'[t] = modified[t]
        PROVE  CallOK(t, call[t])'
    <3>1. CallOK(t, call[t])
      BY DEF StoreInv
    <3> QED
      BY <1>3, <2>2, <3>1 DEF CallOK, Cached, rowVars
  <2> QED
    BY <1>1, <1>2, <1>3, <2>1, <2>2 DEF rowVars
<1>4. CASE PutRow(s, o, state[s][o])
  <2>1. /\ table' = [table EXCEPT ![o] = state[s][o]]
        /\ \A t \in Sessions : foreign'[t] = IF t = s THEN foreign[t] \ {o} ELSE foreign[t] \cup {o}
        /\ foreign' \in [Sessions -> SUBSET ShortPids]
        /\ deleted' = deleted
    BY <1>1, <1>2, <1>4 DEF PutRow
  <2>2. /\ table' \in [ShortPids -> States \cup {NoRow}]
        /\ table'[o] = state[s][o] /\ table'[o] # NoRow
        /\ \A p \in ShortPids \ {o} : table'[p] = table[p]
    BY <1>1, <1>2, <2>1, NamesAssumption
  <2>3. RowsOK'
    <3>1. \A p \in ShortPids : Unborn(p)' => Unborn(p)
      BY <2>1, <2>2 DEF Unborn
    <3>2. \A t, u \in Sessions : \A p \in Cached(t) \cap Cached(u) : Unborn(p)' => t = u
      BY <3>1, CachedCreated DEF StoreInv, TypeOK, RowsOK
    <3>3. (\A p \in ShortPids : table[p] # NoRow => p \in created)'
      BY <1>1, <2>2 DEF StoreInv, RowsOK
    <3> QED
      BY <3>2, <3>3 DEF RowsOK, Cached
  <2>4. ASSUME NEW t \in Sessions \ {s}, call'[t] = call[t], modified'[t] = modified[t]
        PROVE  CallOK(t, call[t])'
    <3>1. CallOK(t, call[t])
      BY DEF StoreInv
    <3>2. Cached(t)' = Cached(t)
      BY DEF Cached
    <3>3. call[t].at = "write" =>
             /\ call[t].pid \in ShortPids /\ call[t].pid \in Cached(t)
             /\ call[t].pid \notin deleted => (call[t].exist <=> table'[call[t].pid] # NoRow)
             /\ call[t].exist /\ table'[call[t].pid] = NoRow => call[t].pid \in foreign'[t]
      <4> SUFFICES ASSUME call[t].at = "write"
                   PROVE  /\ call[t].pid \in ShortPids /\ call[t].pid \in Cached(t)
                          /\ call[t].pid \notin deleted => (call[t].exist <=> table'[call[t].pid] # NoRow)
                          /\ call[t].exist /\ table'[call[t].pid] = NoRow => call[t].pid \in foreign'[t]
        OBVIOUS
      <4>1. call[t].pid \in Cached(t) /\ call[t].pid \in ShortPids
        BY <3>1, CachedCreated DEF CallOK, StoreInv, TypeOK
      <4>2. CASE call[t].pid # o
        BY <3>1, <4>1, <4>2, <2>1, <2>2 DEF CallOK
      <4>3. CASE call[t].pid = o
        <5>1. ~Unborn(o)
          BY <4>1, <4>3, <1>1 DEF StoreInv, RowsOK
        <5> QED
          BY <3>1, <4>1, <4>3, <5>1, <2>2 DEF CallOK, Unborn
      <4> QED
        BY <4>1, <4>2, <4>3
    <3>4. call[t].at \in {"load", "read"} => call[t].pid \in ShortPids
      BY <3>1 DEF CallOK, StoreInv, TypeOK
    <3> QED
      BY <2>1, <2>2, <2>4, <3>1, <3>2, <3>3, <3>4 DEF CallOK
  <2>5. \A p \in ShortPids \ {o} : \A t \in Sessions : p \in foreign'[t] <=> p \in foreign[t]
    BY <2>1
  <2>6. \A t \in Sessions \ {s} : o \in foreign'[t]
    BY <2>1
  <2>7. \A p \in ShortPids \ {o} : /\ table'[p] = table[p]
                                   /\ \A t \in Sessions : p \in foreign'[t] <=> p \in foreign[t]
    BY <2>2, <2>5
  <2>8. \A t \in Sessions \ {s} :
           call'[t] = call[t] /\ modified'[t] = modified[t] => CallOK(t, call[t])'
    BY <2>4
  <2>9. /\ Pid(s) \in modified[s] /\ Pid(s) \in Cached(s) /\ Pid(s) \in ShortPids
        /\ table' \in [ShortPids -> States \cup {NoRow}]
        /\ foreign' \in [Sessions -> SUBSET ShortPids]
        /\ deleted' = deleted
        /\ table'[Pid(s)] = state[s][Pid(s)]
        /\ table'[Pid(s)] # NoRow
    BY <1>1, <2>1, <2>2
  <2> HIDE DEF o
  <2> QED
    BY <2>3, <2>6, <2>7, <2>8, <2>9 DEF o
<1> QED
  BY <1>1, <1>2, <1>3, <1>4 DEF Written, Collides

(* After a write the objects whose marks are left alone, and the one whose *)
(* row was written, are as they should be.                                 *)
LEMMA RowWrittenKeeps ==
  ASSUME StoreInv, NEW s \in Sessions, At(s, "write"), ~Collides(s), Written(s),
         UNCHANGED <<created, objects, state>>, NEW c \in Call,
         call' = [call EXCEPT ![s] = c],
         \/ c = NoCall /\ UNCHANGED modified
         \/ /\ c.at = "flush" /\ c.next = call[s].next + 1
            /\ modified' = [modified EXCEPT ![s] = @ \ {Pid(s)}],
         calls' \in Nat, faults' \in Nat
  PROVE  StoreInv'
<1>1. /\ \A t \in Sessions : Cached(t)' = Cached(t)
      /\ \A t \in Sessions \ {s} : call'[t] = call[t] /\ modified'[t] = modified[t]
      /\ call'[s] = c
      /\ modified' \in [Sessions -> SUBSET created]
      /\ \A t \in Sessions : modified'[t] \subseteq modified[t]
      /\ \A p \in modified[s] \ modified'[s] : p = Pid(s)
  BY DEF StoreInv, TypeOK, Cached
<1>2. TypeOK'
  BY <1>1, RowWritten DEF StoreInv, TypeOK
<1>3. (\A t \in Sessions : CallOK(t, call[t]))'
  <2>1. CallOK(s, call[s])'
    <3>1. CASE c = NoCall
      BY <1>1, <3>1 DEF CallOK, NoCall
    <3>2. CASE /\ c.at = "flush" /\ c.next = call[s].next + 1
               /\ modified' = [modified EXCEPT ![s] = @ \ {Pid(s)}]
      <4>1. /\ \A i \in DOMAIN objects[s] : i < call[s].next => objects[s][i] \notin modified[s]
            /\ Pid(s) = objects[s][call[s].next]
            /\ call[s].next \in Nat
            /\ DOMAIN objects[s] \subseteq Nat
        BY CallsAreRecords, CachedCreated DEF At, CallOK, Pid, Call, StoreInv
      <4>2. \A i \in DOMAIN objects[s] : i < c.next => objects[s][i] \notin modified'[s]
        <5> SUFFICES ASSUME NEW i \in DOMAIN objects[s], i < c.next
                     PROVE  objects[s][i] \notin modified'[s]
          OBVIOUS
        <5>1. i < call[s].next \/ i = call[s].next
          BY <3>2, <4>1
        <5> QED
          BY <5>1, <4>1, <3>2 DEF StoreInv, TypeOK
      <4> QED
        BY <1>1, <3>2, <4>2 DEF CallOK
    <3> QED
      BY <3>1, <3>2
  <2>2. \A t \in Sessions \ {s} : CallOK(t, call[t])'
    BY <1>1, RowWritten
  <2> QED
    BY <2>1, <2>2
<1>4. (\A t \in Sessions : modified[t] \subseteq Cached(t))'
  BY <1>1 DEF StoreInv
<1>5. OneIncarnation' /\ RowsOK'
  BY RowWritten DEF StoreInv, OneIncarnation
<1>6. UnmodifiedIsStored'
  <2> SUFFICES ASSUME NEW t \in Sessions, NEW p \in Cached(t),
                      p \notin modified'[t], p \notin foreign'[t]
               PROVE  table'[p] = state[t][p]
    BY <1>1 DEF UnmodifiedIsStored
  <2>0. p \in ShortPids
    BY CachedCreated DEF StoreInv, TypeOK
  <2>1. CASE p # Pid(s)
    <3>1. p \notin modified[t] /\ p \notin foreign[t] /\ table'[p] = table[p]
      BY <1>1, <2>0, <2>1, RowWritten
    <3> QED
      BY <3>1 DEF StoreInv, UnmodifiedIsStored
  <2>2. CASE p = Pid(s) /\ t = s
    BY <2>2, RowWritten
  <2>3. CASE p = Pid(s) /\ t # s
    <3>1. foreign'[t] = foreign[t] /\ table' = table
      BY <2>3, RowWritten
    <3>2. p \notin modified[t] /\ p \notin foreign[t]
      BY <1>1, <2>3, <3>1
    <3> QED
      BY <3>1, <3>2 DEF StoreInv, UnmodifiedIsStored
  <2> QED
    BY <2>1, <2>2, <2>3
<1> QED
  BY <1>2, <1>3, <1>4, <1>5, <1>6 DEF StoreInv

LEMMA WriteRowWrites ==
  ASSUME StoreInv, NEW s \in Sessions, WriteRow(s)
  PROVE  StoreInv'
<1> DEFINE c == [call[s] EXCEPT !.at = "flush", !.next = @ + 1]
<1>1. c \in Call /\ c.at = "flush" /\ c.next = call[s].next + 1
  <2>1. "flush" \in Place
    BY DEF Place
  <2>2. c \in Call
    BY <2>1, CallRecords, CallsAreRecords
  <2> QED
    BY <2>2, CallsAreRecords DEF Call
<1>2. call' = [call EXCEPT ![s] = c]
  BY CallsAreRecords DEF WriteRow, At, Advances
<1>3. calls' \in Nat /\ faults' \in Nat
  BY CallsAreRecords DEF WriteRow, InCall
<1>4. /\ At(s, "write") /\ ~Collides(s) /\ Written(s)
      /\ UNCHANGED <<created, objects, state>>
      /\ modified' = [modified EXCEPT ![s] = @ \ {Pid(s)}]
  BY DEF WriteRow, InCall
<1> QED
  BY <1>1, <1>2, <1>3, <1>4, RowWrittenKeeps

LEMMA FailureKeeps ==
  ASSUME StoreInv, NEW s \in Sessions, StatementFails(s)
  PROVE  StoreInv'
<1>1. /\ calls' \in Nat /\ faults' \in Nat
      /\ Returns(s)
      /\ UNCHANGED <<created, objects, state, modified>>
  BY CallsAreRecords DEF StatementFails, cacheVars
<1>2. CASE UNCHANGED rowVars
  BY <1>1, <1>2, CallReturns DEF cacheVars
<1>3. CASE At(s, "write") /\ ~Collides(s) /\ Written(s)
  BY <1>1, <1>3, NoCallOK, RowWrittenKeeps DEF Returns
<1> QED
  BY <1>2, <1>3 DEF StatementFails

LEMMA DestroyDeletes ==
  ASSUME StoreInv, NEW s \in Sessions, NEW o \in ShortPids, DestroyObject(s, o)
  PROVE  StoreInv'
<1>1. CASE UNCHANGED rowVars
  <2>1. call' = [call EXCEPT ![s] = call[s]]
    BY DEF DestroyObject, StoreInv, TypeOK
  <2>2. calls' \in Nat /\ faults' \in Nat
    BY CallsAreRecords DEF DestroyObject, Begins
  <2> QED
    BY <1>1, <2>1, <2>2, CallsAreRecords, CallMoves DEF DestroyObject
<1>2. CASE /\ table' = [table EXCEPT ![o] = NoRow] /\ deleted' = deleted \cup {o}
           /\ foreign' = [t \in Sessions |-> foreign[t] \cup {o}]
  <2>1. /\ table' = [table EXCEPT ![o] = NoRow] /\ deleted' = deleted \cup {o}
        /\ foreign' = [t \in Sessions |-> foreign[t] \cup {o}]
        /\ UNCHANGED <<created, objects, state, modified, call>>
        /\ calls' \in Nat /\ faults' \in Nat
        /\ \A t \in Sessions : Cached(t)' = Cached(t)
    BY <1>2, CallsAreRecords DEF DestroyObject, Begins, cacheVars, Cached
  <2>2. /\ TypeOK
        /\ table'[o] = NoRow /\ \A p \in ShortPids \ {o} : table'[p] = table[p]
        /\ \A t \in Sessions : foreign'[t] = foreign[t] \cup {o}
    BY <2>1 DEF StoreInv, TypeOK
  <2>3. TypeOK'
    BY <2>1, <2>2 DEF TypeOK
  <2>4. (\A t \in Sessions : CallOK(t, call[t]))'
    <3> SUFFICES ASSUME NEW t \in Sessions PROVE CallOK(t, call[t])'
      OBVIOUS
    <3>1. CallOK(t, call[t])
      BY DEF StoreInv
    <3>2. call[t].at \in {"load", "read", "write"} => call[t].pid \in ShortPids
      BY <3>1, CachedCreated, <2>2 DEF CallOK, TypeOK
    <3> QED
      BY <2>1, <2>2, <3>1, <3>2 DEF CallOK
  <2>5. (\A t \in Sessions : modified[t] \subseteq Cached(t))' /\ OneIncarnation'
    BY <2>1 DEF StoreInv, OneIncarnation
  <2>6. RowsOK'
    <3>1. \A p \in ShortPids : Unborn(p)' => Unborn(p)
      BY <2>1, <2>2 DEF Unborn
    <3>2. \A t, u \in Sessions : \A p \in Cached(t) \cap Cached(u) : Unborn(p)' => t = u
      BY <3>1, CachedCreated DEF StoreInv, TypeOK, RowsOK
    <3> QED
      BY <2>1, <2>2, <3>2 DEF StoreInv, RowsOK
  <2>7. UnmodifiedIsStored'
    BY <2>1, <2>2, CachedCreated DEF StoreInv, UnmodifiedIsStored, TypeOK
  <2> QED
    BY <2>3, <2>4, <2>5, <2>6, <2>7 DEF StoreInv
<1> QED
  BY <1>1, <1>2 DEF DestroyObject

(***************************************************************************)
(* The invariant.                                                          *)
(***************************************************************************)
LEMMA StoreInit ==
  ASSUME Init
  PROVE  StoreInv
<1>1. /\ \A s \in Sessions : objects[s] = <<>> /\ Cached(s) = {} /\ call[s] = NoCall
      /\ \A s \in Sessions : IsInjective(objects[s])
  BY DEF Init, Cached, Range, IsInjective
<1>2. TypeOK
  BY <1>1, NoCallOK DEF Init, TypeOK
<1>3. RowsOK
  BY <1>1 DEF Init, RowsOK
<1>4. \A s \in Sessions : CallOK(s, call[s])
  BY <1>1, NoCallOK
<1> QED
  BY <1>1, <1>2, <1>3, <1>4 DEF Init, StoreInv, OneIncarnation, UnmodifiedIsStored

LEMMA StoreStep ==
  ASSUME StoreInv, [Next]_vars
  PROVE  StoreInv'
<1>1. CASE UNCHANGED vars
  <2>1. TypeOK' /\ OneIncarnation' /\ RowsOK' /\ UnmodifiedIsStored'
    BY <1>1 DEF StoreInv, TypeOK, OneIncarnation, RowsOK, UnmodifiedIsStored, Unborn,
                Cached, vars, rowVars, cacheVars
  <2>2. (\A s \in Sessions : CallOK(s, call[s]) /\ modified[s] \subseteq Cached(s))'
    BY <1>1 DEF StoreInv, CallOK, Cached, vars, rowVars, cacheVars
  <2> QED
    BY <2>1, <2>2 DEF StoreInv
<1>2. ASSUME NEW s \in Sessions, BeginCall(s)
      PROVE  StoreInv'
  BY <1>2, CreateAppends, SetStateMarks, DestroyDeletes, FlushBegins, FindObjectBegins,
     FindByShortPidBegins, RefreshBegins
     DEF BeginCall
<1>3. ASSUME NEW s \in Sessions, Step(s)
      PROVE  StoreInv'
  BY <1>3, FlushNextMoves, FlushEndsMoves, WriteRowWrites, SelectByKeyMoves, LoadObjectMoves,
     ReadRowAppends, RefreshNextReads, RefreshEndsMoves, FailureKeeps
     DEF Step
<1> QED
  BY <1>1, <1>2, <1>3 DEF Next

(* The inductive invariant, of which the following are parts or            *)
(* consequences.                                                           *)
THEOREM StoreInvariant == Spec => []StoreInv
<1>1. Init => StoreInv
  BY StoreInit
<1>2. StoreInv /\ [Next]_vars => StoreInv'
  BY StoreStep
<1> QED
  BY <1>1, <1>2, PTL DEF Spec

(* The type invariant, for any number of sessions, objects and calls.      *)
THEOREM StoreTypeOK == Spec => []TypeOK
<1>1. StoreInv => TypeOK
  BY DEF StoreInv
<1> QED
  BY <1>1, StoreInvariant, PTL

(* An incarnation without a mark says what the table says, unless others   *)
(* have changed the row.                                                   *)
THEOREM UnmodifiedStored == Spec => []UnmodifiedIsStored
<1>1. StoreInv => UnmodifiedIsStored
  BY DEF StoreInv
<1> QED
  BY <1>1, StoreInvariant, PTL

(* No session holds two incarnations of one object.                        *)
THEOREM IncarnatedOnce == Spec => []OneIncarnation
<1>1. StoreInv => OneIncarnation
  BY DEF StoreInv
<1> QED
  BY <1>1, StoreInvariant, PTL

(* A search by key is made of a table that has every change of the session.*)
THEOREM SearchesSeeChanges == Spec => []SelectsAfterFlush
<1>1. StoreInv => SelectsAfterFlush
  BY DEF StoreInv, SelectsAfterFlush, CallOK, At
<1> QED
  BY <1>1, StoreInvariant, PTL

(* The statements of a call agree on a row that was never deleted.         *)
THEOREM NoRowSurprises == Spec => []StatementsAgree
<1>1. StoreInv => StatementsAgree
  BY DEF StoreInv, StatementsAgree, CallOK, At, Pid
<1> QED
  BY <1>1, StoreInvariant, PTL

(* Only a write that leaves the state in the row takes a mark away, or one *)
(* of a deleted row.                                                       *)
THEOREM MarksClearedByWrites == Spec => MarkClearedByWrite
<1> DEFINE Cleared == \A s \in Sessions : \A o \in modified[s] \ modified'[s] :
                         table'[o] = state[s][o] \/ (o \in deleted /\ table'[o] = NoRow)
<1>1. StoreInv /\ [Next]_vars => [Cleared]_vars
  <2> SUFFICES ASSUME StoreInv, [Next]_vars, modified' # modified PROVE Cleared
    BY DEF vars, cacheVars
  <2>1. CASE \E s \in Sessions, o \in ShortPids, value \in States :
                Create(s, o, value) \/ SetState(s, o, value)
    BY <2>1 DEF Create, SetState, StoreInv, TypeOK
  <2>2. CASE \E s \in Sessions : WriteRow(s)
    <3> PICK s \in Sessions : WriteRow(s)
      BY <2>2
    <3>1. modified' = [modified EXCEPT ![s] = @ \ {Pid(s)}]
      BY DEF WriteRow
    <3>2. \A t \in Sessions : \A o \in modified[t] \ modified'[t] : t = s /\ o = Pid(s)
      BY <3>1 DEF StoreInv, TypeOK
    <3>3. /\ At(s, "write") /\ ~Collides(s) /\ Written(s)
          /\ UNCHANGED <<created, objects, state>>
      BY DEF WriteRow, InCall
    <3>4. \/ table'[Pid(s)] = state[s][Pid(s)]
          \/ table'[Pid(s)] = NoRow /\ Pid(s) \in deleted
      BY <3>3, RowWritten
    <3> QED
      BY <3>2, <3>4
  <2> QED
    BY <2>1, <2>2
       DEF Next, BeginCall, Step, DestroyObject, FindByShortPid, FindObject, Flush, Refresh,
           FlushNext, FlushEnds, InsertCollides, SelectByKey, LoadObject, ReadRow, RefreshNext,
           RefreshEnds, StatementFails, vars, cacheVars
<1> QED
  BY <1>1, StoreInvariant, PTL DEF Spec, MarkClearedByWrite
=============================================================================
