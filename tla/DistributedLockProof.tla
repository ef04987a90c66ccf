------------------------ MODULE DistributedLockProof ------------------------
(***************************************************************************)
(* Proofs about DistributedLock for any sessions, keys, TTLs and token     *)
(* bound.  What the tokens promise needs nothing else; what the leases     *)
(* promise needs every session to pass a holder name of its own.           *)
(***************************************************************************)
EXTENDS DistributedLock, TLAPS

DistinctNames == \A s, t \in Sessions : Name[s] = Name[t] => s = t

-----------------------------------------------------------------------------
(* A tick takes at most one off what is left and never gives any back.     *)
LEMMA OlderFacts ==
  ASSUME NEW left \in {-1} \cup Nat
  PROVE  /\ Older(left) \in {-1} \cup Nat
         /\ Older(left) > 0 => left > 0
  BY DEF Older

LEMMA NoLeaseType == NoLease \in [key : Keys, token : {0}, left : {-1}]
  BY LockAssumption DEF NoLease

LEMMA NoEntryType == /\ NoEntry \in [holder : {NoName}, token : {0}, left : {-1}]
                     /\ NoEntry.token = 0
                     /\ NoEntry.holder = NoName
  BY DEF NoEntry

LEMMA InitType == LockInit => LockTypeOK
  BY LockAssumption, NoLeaseType DEF LockInit, LockTypeOK, NoEntry, Present

LEMMA NextType == LockTypeOK /\ [LockNext]_lockVars => LockTypeOK'
  <1> SUFFICES ASSUME LockTypeOK, [LockNext]_lockVars PROVE LockTypeOK'
    OBVIOUS
  <1> USE LockAssumption DEF LockTypeOK, Present, Working
  <1>1. ASSUME NEW s \in Sessions, Refuse(s) PROVE LockTypeOK'
    BY <1>1 DEF Refuse
  <1>2. ASSUME NEW s \in Sessions, NEW k \in Keys, NEW ttl \in TTLs, Grant(s, k, ttl)
        PROVE LockTypeOK'
    BY <1>2 DEF Grant
  <1>3. ASSUME NEW s \in Sessions, Unlock(s) PROVE LockTypeOK'
    <2>1. CASE Releasable(s)
      <3>1. locks' \in [Keys -> [holder : {Name[t] : t \in Sessions} \cup {NoName},
                                token : 0..nextTok, left : {-1} \cup Nat]]
        BY <1>3, <2>1, NoEntryType DEF Unlock
      <3>2. \A k \in Keys : locks'[k].token # 0 <=> locks'[k].holder # NoName
        BY <1>3, <2>1, NoEntryType DEF Unlock
      <3> QED
        BY <1>3, <3>1, <3>2, NoLeaseType DEF Unlock
    <2>2. CASE ~Releasable(s)
      BY <1>3, <2>2, NoLeaseType DEF Unlock
    <2> QED
      BY <2>1, <2>2
  <1>4. ASSUME NEW s \in Sessions, Crash(s) PROVE LockTypeOK'
    BY <1>4, NoLeaseType DEF Crash
  <1>5. CASE ExpirySweep
    BY <1>5 DEF ExpirySweep, NoEntry
  <1>6. CASE TimePasses
    BY <1>6, OlderFacts DEF TimePasses
  <1>7. CASE UNCHANGED lockVars
    BY <1>7 DEF lockVars
  <1> QED
    BY <1>1, <1>2, <1>3, <1>4, <1>5, <1>6, <1>7 DEF LockNext, Lock

(* Every variable keeps its type; the map never holds an entry without a   *)
(* token or a token above nextTok.                                         *)
THEOREM TypeCorrect == LockSpec => []LockTypeOK
  BY InitType, NextType, PTL DEF LockSpec

-----------------------------------------------------------------------------
(* Tokens identify sessions and the map holds the newest of each key, even *)
(* when sessions share a holder name.                                      *)
THEOREM TokensAlwaysFence == LockSpec => []TokensFence
  <1>1. LockInit => TokensFence
    BY DEF LockInit, TokensFence, Working
  <1>2. LockTypeOK /\ TokensFence /\ [LockNext]_lockVars => TokensFence'
    <2> SUFFICES ASSUME LockTypeOK, TokensFence, [LockNext]_lockVars PROVE TokensFence'
      OBVIOUS
    <2> USE LockAssumption DEF LockTypeOK, TokensFence, Present, Working
    <2>1. ASSUME NEW s \in Sessions, Refuse(s) PROVE TokensFence'
      BY <2>1 DEF Refuse
    <2>2. ASSUME NEW s \in Sessions, NEW k \in Keys, NEW ttl \in TTLs, Grant(s, k, ttl)
          PROVE TokensFence'
      BY <2>2 DEF Grant
    <2>3. ASSUME NEW s \in Sessions, Unlock(s) PROVE TokensFence'
      <3>1. CASE Releasable(s)
        BY <2>3, <3>1, NoLeaseType DEF Unlock, NoEntry
      <3>2. CASE ~Releasable(s)
        BY <2>3, <3>2, NoLeaseType DEF Unlock
      <3> QED
        BY <3>1, <3>2
    <2>4. ASSUME NEW s \in Sessions, Crash(s) PROVE TokensFence'
      BY <2>4, NoLeaseType DEF Crash
    <2>5. CASE ExpirySweep
      BY <2>5 DEF ExpirySweep, NoEntry
    <2>6. CASE TimePasses
      <3>1. \A k \in Keys : /\ locks'[k].holder = locks[k].holder
                            /\ locks'[k].token = locks[k].token
                            /\ locks'[k].left = Older(locks[k].left)
        BY <2>6 DEF TimePasses
      <3>2. \A s \in Sessions : /\ lease'[s].key = lease[s].key
                                /\ lease'[s].token = lease[s].token
                                /\ lease'[s].left = Older(lease[s].left)
        BY <2>6 DEF TimePasses
      <3>3. \A k \in Keys : locks'[k] \in [holder : {Name[s] : s \in Sessions} \cup {NoName},
                                           token : 0..nextTok, left : {-1} \cup Nat]
        BY <2>6, OlderFacts DEF TimePasses
      <3>4. session' = session
        BY <2>6 DEF TimePasses
      <3> QED
        BY <3>1, <3>2, <3>3, <3>4, OlderFacts
    <2>7. CASE UNCHANGED lockVars
      BY <2>7 DEF lockVars
    <2> QED
      BY <2>1, <2>2, <2>3, <2>4, <2>5, <2>6, <2>7 DEF LockNext, Lock
  <1> QED
    BY <1>1, <1>2, TypeCorrect, PTL DEF LockSpec

-----------------------------------------------------------------------------
(* LeaseIsRecorded alone is not preserved by an Unlock: a stale session    *)
(* must not find an entry of another session under its own name.  That is  *)
(* NameIsOwn, and it needs the names to be distinct.                       *)
NameIsOwn == \A s \in Sessions :
    Working(s) /\ locks[lease[s].key].holder = Name[s]
        => locks[lease[s].key].token = lease[s].token

LeaseInv == LockTypeOK /\ LeaseIsRecorded /\ NameIsOwn

LEMMA LeaseInductive ==
  ASSUME DistinctNames
  PROVE  LockSpec => []LeaseInv
  <1>1. LockInit => LeaseInv
    BY InitType DEF LockInit, LeaseInv, LeaseIsRecorded, NameIsOwn, Leased, Working
  <1>2. LeaseInv /\ [LockNext]_lockVars => LeaseInv'
    <2> SUFFICES ASSUME LeaseInv, [LockNext]_lockVars
                 PROVE  LeaseIsRecorded' /\ NameIsOwn'
      BY NextType DEF LeaseInv
    <2> USE LockAssumption
         DEF LeaseInv, LockTypeOK, LeaseIsRecorded, NameIsOwn, Leased, Present, Working
    <2>1. ASSUME NEW s \in Sessions, Refuse(s) PROVE LeaseIsRecorded' /\ NameIsOwn'
      BY <2>1 DEF Refuse
    <2>2. ASSUME NEW s \in Sessions, NEW k \in Keys, NEW ttl \in TTLs, Grant(s, k, ttl)
          PROVE LeaseIsRecorded' /\ NameIsOwn'
      BY <2>2, DistinctNames DEF Grant, Unexpired, DistinctNames
    <2>3. ASSUME NEW s \in Sessions, Unlock(s) PROVE LeaseIsRecorded' /\ NameIsOwn'
      <3>1. CASE Releasable(s)
        <4>1. \A k \in Keys \ {lease[s].key} : locks'[k] = locks[k]
          BY <2>3, <3>1 DEF Unlock
        <4>2. \A t \in Sessions \ {s} : /\ session'[t] = session[t] /\ lease'[t] = lease[t]
          BY <2>3 DEF Unlock
        <4>3. session'[s] = "idle" /\ locks'[lease[s].key] = NoEntry
          BY <2>3, <3>1 DEF Unlock
        <4>4. \A t \in Sessions \ {s} : locks[lease[s].key].holder # Name[t]
          BY <3>1, DistinctNames DEF Releasable, DistinctNames
        <4>5. ASSUME NEW t \in Sessions, Leased(t)'
              PROVE  locks'[lease'[t].key] = locks[lease[t].key]
          <5>1. t # s /\ Leased(t) /\ lease'[t] = lease[t]
            BY <4>2, <4>3, <4>5
          <5> DEFINE entry == [holder |-> Name[t], token |-> lease[t].token,
                               left |-> lease[t].left]
          <5>2. locks[lease[t].key] = entry /\ entry.holder = Name[t]
            BY <5>1
          <5>3. lease[t].key # lease[s].key
            BY <5>1, <5>2, <4>4
          <5> QED
            BY <5>1, <5>3, <4>1
        <4>6. ASSUME NEW t \in Sessions, Working(t)', locks'[lease'[t].key].holder = Name[t]
              PROVE  locks'[lease'[t].key].token = lease'[t].token
          BY <4>1, <4>2, <4>3, <4>6, NoEntryType
        <4> QED
          BY <4>2, <4>3, <4>5, <4>6
      <3>2. CASE ~Releasable(s)
        BY <2>3, <3>2, NoLeaseType DEF Unlock
      <3> QED
        BY <3>1, <3>2
    <2>4. ASSUME NEW s \in Sessions, Crash(s) PROVE LeaseIsRecorded' /\ NameIsOwn'
      BY <2>4, NoLeaseType DEF Crash
    <2>5. CASE ExpirySweep
      BY <2>5 DEF ExpirySweep, Stale, NoEntry
    <2>6. CASE TimePasses
      <3>1. \A k \in Keys : /\ locks'[k].holder = locks[k].holder
                            /\ locks'[k].token = locks[k].token
                            /\ locks'[k].left = Older(locks[k].left)
        BY <2>6 DEF TimePasses
      <3>2. \A s \in Sessions : /\ lease'[s].key = lease[s].key
                                /\ lease'[s].token = lease[s].token
                                /\ lease'[s].left = Older(lease[s].left)
        BY <2>6 DEF TimePasses
      <3>3. \A k \in Keys : locks'[k] \in [holder : {Name[s] : s \in Sessions} \cup {NoName},
                                           token : 0..nextTok, left : {-1} \cup Nat]
        BY <2>6, OlderFacts DEF TimePasses
      <3>4. session' = session
        BY <2>6 DEF TimePasses
      <3> QED
        <4>1. ASSUME NEW t \in Sessions, Leased(t)'
              PROVE  locks'[lease'[t].key]
                       = [holder |-> Name[t], token |-> lease'[t].token,
                          left |-> lease'[t].left]
          <5>1. Leased(t)
            BY <4>1, <3>2, <3>4, OlderFacts
          <5>2. locks[lease[t].key] = [holder |-> Name[t], token |-> lease[t].token,
                                       left |-> lease[t].left]
            BY <5>1
          <5>3. /\ locks'[lease[t].key].holder = Name[t]
                /\ locks'[lease[t].key].token = lease[t].token
                /\ locks'[lease[t].key].left = Older(lease[t].left)
            BY <5>2, <3>1
          <5> QED
            BY <5>3, <3>2, <3>3
        <4>2. NameIsOwn'
          BY <3>1, <3>2, <3>4
        <4> QED
          BY <4>1, <4>2
    <2>7. CASE UNCHANGED lockVars
      BY <2>7 DEF lockVars
    <2> QED
      BY <2>1, <2>2, <2>3, <2>4, <2>5, <2>6, <2>7 DEF LockNext, Lock
  <1> QED
    BY <1>1, <1>2, PTL DEF LockSpec

(* A running lease is the entry in the map.                                *)
THEOREM LeasesAreRecorded ==
  ASSUME DistinctNames
  PROVE  LockSpec => []LeaseIsRecorded
  BY LeaseInductive, PTL DEF LeaseInv

(* The lock manager's invariant: exclusion and fencing together.           *)
THEOREM KeepsLockInv ==
  ASSUME DistinctNames
  PROVE  LockSpec => []LockInv
  BY TypeCorrect, TokensAlwaysFence, LeasesAreRecorded, PTL DEF LockInv

(* A session that leaves takes no other grant's entry out of the map.      *)
THEOREM ReleasesOnlyItsOwn ==
  ASSUME DistinctNames
  PROVE  LockSpec => OnlyOwnLeaseReleased
  <1> DEFINE Own(s) == Working(s) /\ session'[s] = "idle" /\ Present(lease[s].key)
                       /\ locks'[lease[s].key] = NoEntry
                         => locks[lease[s].key].token = lease[s].token
  <1>1. LeaseInv /\ [LockNext]_lockVars => [\A s \in Sessions : Own(s)]_lockVars
    <2> SUFFICES ASSUME LeaseInv, LockNext, NEW s \in Sessions,
                        Working(s), session'[s] = "idle", Present(lease[s].key),
                        locks'[lease[s].key] = NoEntry
                 PROVE  locks[lease[s].key].token = lease[s].token
      OBVIOUS
    <2> USE DEF LeaseInv, LockTypeOK, Working, Present
    <2>1. locks' # locks /\ session' # session
      BY NoEntryType
    <2>2. ~ \E t \in Sessions, k \in Keys, ttl \in TTLs : Grant(t, k, ttl)
      BY NoEntryType DEF Grant
    <2>3. PICK t \in Sessions : Unlock(t)
      BY <2>1, <2>2 DEF LockNext, Lock, Refuse, Crash, ExpirySweep, TimePasses
    <2>4. t = s /\ Releasable(s)
      BY <2>1, <2>3 DEF Unlock
    <2> QED
      BY <2>4 DEF Releasable, NameIsOwn
  <1> QED
    BY <1>1, LeaseInductive, PTL DEF LockSpec, OnlyOwnLeaseReleased

-----------------------------------------------------------------------------
(* At most one session has a running lease on a key, so Owner names it.    *)
OwnerInv == \A k \in Keys : /\ \A s \in LeasedOn(k) : Owner[k] = s
                            /\ LeasedOn(k) = {} => Owner[k] = NoName

LEMMA OwnerIsLeased ==
  ASSUME DistinctNames
  PROVE  LeaseInv => OwnerInv
  <1> SUFFICES ASSUME LeaseInv, NEW k \in Keys
               PROVE  /\ \A s \in LeasedOn(k) : Owner[k] = s
                      /\ LeasedOn(k) = {} => Owner[k] = NoName
    BY DEF OwnerInv
  <1>1. ASSUME NEW s \in LeasedOn(k), NEW t \in LeasedOn(k) PROVE s = t
    <2>1. locks[k] = [holder |-> Name[s], token |-> lease[s].token, left |-> lease[s].left]
      BY DEF LeaseInv, LeaseIsRecorded, LeasedOn
    <2>2. locks[k] = [holder |-> Name[t], token |-> lease[t].token, left |-> lease[t].left]
      BY DEF LeaseInv, LeaseIsRecorded, LeasedOn
    <2>3. Name[s] = Name[t]
      BY <2>1, <2>2
    <2> QED
      BY <2>3, DistinctNames DEF DistinctNames, LeasedOn
  <1>2. ASSUME NEW s \in LeasedOn(k) PROVE Owner[k] = s
    <2>1. Owner[k] = CHOOSE t \in Sessions : t \in LeasedOn(k)
      BY DEF Owner
    <2>2. Owner[k] \in LeasedOn(k)
      BY <2>1 DEF LeasedOn
    <2> QED
      BY <2>2, <1>1
  <1> QED
    BY <1>2 DEF Owner

(* The manager implements LeaseLock when names are distinct and no lease   *)
(* is over as soon as it is granted.                                       *)
THEOREM ImplementsLeaseLock ==
  ASSUME DistinctNames, 0 \notin TTLs, NoName \notin Sessions
  PROVE  LockSpec => KeepsLeases
  <1>1. LockInit => Abstract!Init
    BY DEF LockInit, Abstract!Init, Owner, LeasedOn, Leased, Working
  <1>2. LeaseInv /\ OwnerInv /\ OwnerInv' /\ [LockNext]_lockVars => [Abstract!Next]_(Abstract!vars)
    <2> SUFFICES ASSUME LeaseInv, OwnerInv, OwnerInv', [LockNext]_lockVars
                 PROVE  Abstract!Next \/ (Owner' = Owner /\ nextTok' = nextTok)
      BY DEF Abstract!vars
    <2>a. \A k \in Keys : /\ \A s \in LeasedOn(k) : Owner[k] = s
                          /\ LeasedOn(k) = {} => Owner[k] = NoName
      BY DEF OwnerInv
    <2>b. \A k \in Keys : /\ \A s \in LeasedOn(k)' : Owner'[k] = s
                          /\ LeasedOn(k)' = {} => Owner'[k] = NoName
      BY DEF OwnerInv
    <2>c. ASSUME nextTok' = nextTok, \A k \in Keys : LeasedOn(k)' \subseteq LeasedOn(k)
          PROVE  Abstract!Next
      <3> DEFINE Ended == {k \in Keys : LeasedOn(k)' = {}}
      <3>1. ASSUME NEW k \in Keys
            PROVE  Owner'[k] = IF k \in Ended THEN NoName ELSE Owner[k]
        <4>1. CASE LeasedOn(k)' = {}
          BY <4>1, <2>b
        <4>2. CASE LeasedOn(k)' # {}
          BY <4>2, <2>a, <2>b, <2>c
        <4> QED
          BY <4>1, <4>2
      <3>2. Owner' = [k \in Keys |-> Owner'[k]]
        BY DEF Owner
      <3>3. Abstract!End(Ended)
        BY <2>c, <3>1, <3>2 DEF Abstract!End
      <3> QED
        BY <3>3 DEF Abstract!Next
    <2> USE DEF LeaseInv, LockTypeOK, LeasedOn, Leased, Working
    <2>1. ASSUME NEW s \in Sessions, Refuse(s) PROVE Abstract!Next
      BY <2>1, <2>c DEF Refuse
    <2>2. ASSUME NEW s \in Sessions, NEW k \in Keys, NEW ttl \in TTLs, Grant(s, k, ttl)
          PROVE Abstract!Next
      <3>1. LeasedOn(k) = {}
        <4> SUFFICES ASSUME NEW t \in LeasedOn(k) PROVE FALSE
          OBVIOUS
        <4> DEFINE entry == [holder |-> Name[t], token |-> lease[t].token,
                             left |-> lease[t].left]
        <4>1. /\ locks[k] = entry /\ entry.left = lease[t].left
              /\ entry.holder = Name[t] /\ lease[t].left > 0
          BY DEF LeaseIsRecorded
        <4>2. Present(k) /\ locks[k].left > 0
          BY <4>1, LockAssumption DEF Present
        <4> QED
          BY <4>2, <2>2 DEF Grant, Unexpired
      <3>2. LeasedOn(k)' = {s}
        BY <2>2, <3>1, LockAssumption DEF Grant
      <3>3. \A j \in Keys \ {k} : LeasedOn(j)' = LeasedOn(j)
        BY <2>2 DEF Grant
      <3>4. ASSUME NEW j \in Keys
            PROVE  Owner'[j] = IF j = k THEN s ELSE Owner[j]
        <4>1. CASE j = k
          BY <4>1, <2>b, <3>2
        <4>2. CASE j # k /\ LeasedOn(j) = {}
          BY <4>2, <2>a, <2>b, <3>3
        <4>3. CASE j # k /\ LeasedOn(j) # {}
          BY <4>3, <2>a, <2>b, <3>3
        <4> QED
          BY <4>1, <4>2, <4>3
      <3>5. Owner' = [Owner EXCEPT ![k] = s]
        <4>1. Owner \in [Keys -> UNION {{Owner[j]} : j \in Keys}] /\ DOMAIN Owner = Keys
          BY DEF Owner
        <4>2. Owner' = [j \in Keys |-> Owner'[j]]
          BY DEF Owner
        <4> QED
          BY <4>1, <4>2, <3>4
      <3>6. Owner[k] = NoName
        BY <2>a, <3>1
      <3>7. nextTok' = nextTok + 1
        BY <2>2 DEF Grant
      <3> QED
        BY <3>5, <3>6, <3>7 DEF Abstract!Next, Abstract!Grant
    <2>3. ASSUME NEW s \in Sessions, Unlock(s) PROVE Abstract!Next
      BY <2>3, <2>c DEF Unlock
    <2>4. ASSUME NEW s \in Sessions, Crash(s) PROVE Abstract!Next
      BY <2>4, <2>c DEF Crash
    <2>5. CASE ExpirySweep
      BY <2>5, <2>c DEF ExpirySweep
    <2>6. CASE TimePasses
      <3>1. \A s \in Sessions : /\ lease'[s].key = lease[s].key
                                /\ lease'[s].left = Older(lease[s].left)
        BY <2>6 DEF TimePasses
      <3>2. session' = session /\ nextTok' = nextTok
        BY <2>6 DEF TimePasses
      <3> QED
        BY <3>1, <3>2, <2>c, OlderFacts
    <2>7. CASE UNCHANGED lockVars
      BY <2>7, <2>c DEF lockVars
    <2> QED
      BY <2>1, <2>2, <2>3, <2>4, <2>5, <2>6, <2>7 DEF LockNext, Lock
  <1> QED
    BY <1>1, <1>2, LeaseInductive, OwnerIsLeased, DistinctNames, PTL
       DEF LockSpec, KeepsLeases, Abstract!Spec
=============================================================================
