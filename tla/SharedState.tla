------------------------------ MODULE SharedState ------------------------------
(* src/03_concurrency/05_mutexes_atomics: the sections of main one after the  *)
(* other, each with a goroutine per member of Routines and a wait for all of *)
(* them.  What the race detector would report in the first one is modelled   *)
(* as the read and the write it consists of, nothing keeping them together.  *)
EXTENDS Naturals, FiniteSets

CONSTANTS Routines, Writer   \* Writer calls cfg.Set, the others cfg.Get

VARIABLES stage,    \* the section main is in, 6 at the end
          spot,     \* where a goroutine is in it
          local,    \* the value it has read
          plain, safe, atomic,   \* the three counters
          mu,       \* the holder of SafeCounter.mu, or none
          readers, writing,      \* Config.mu
          setting,  \* the two words of Config.setting, 0 initial, 1 updated
          got,      \* the words a reader has read
          once      \* of sync.Once: "new", "running", "done"

counters == <<plain, safe, atomic>>
config == <<readers, writing, setting, got>>
vars == <<stage, spot, local, counters, mu, config, once>>

None == {}

Init == /\ stage = 1
        /\ spot = [r \in Routines |-> "start"] /\ local = [r \in Routines |-> 0]
        /\ plain = 0 /\ safe = 0 /\ atomic = 0 /\ mu = None
        /\ readers = {} /\ writing = FALSE /\ setting = <<0, 0>>
        /\ got = [r \in Routines |-> <<0, 0>>]
        /\ once = "new"

In(s, r, place) == stage = s /\ spot[r] = place

To(r, place) == spot' = [spot EXCEPT ![r] = place] /\ UNCHANGED stage

(* unsafe.count++                                                            *)
RaceRead(r) == /\ In(1, r, "start") /\ To(r, "write")
               /\ local' = [local EXCEPT ![r] = plain]
               /\ UNCHANGED <<counters, mu, config, once>>

RaceWrite(r) == /\ In(1, r, "write") /\ To(r, "end")
                /\ plain' = local[r] + 1
                /\ UNCHANGED <<local, safe, atomic, mu, config, once>>

BugLock(r) == /\ In(2, r, "start") /\ To(r, "read")
              /\ mu' = {r}
              /\ UNCHANGED <<local, counters, config, once>>

Lock(r) == /\ In(2, r, "start") /\ mu = None /\ To(r, "read")
           /\ mu' = {r}
           /\ UNCHANGED <<local, counters, config, once>>

SafeRead(r) == /\ In(2, r, "read") /\ To(r, "write")
               /\ local' = [local EXCEPT ![r] = safe]
               /\ UNCHANGED <<counters, mu, config, once>>

SafeWrite(r) == /\ In(2, r, "write") /\ To(r, "unlock")
                /\ safe' = local[r] + 1
                /\ UNCHANGED <<local, plain, atomic, mu, config, once>>

Unlock(r) == /\ In(2, r, "unlock") /\ To(r, "end")
             /\ mu' = None
             /\ UNCHANGED <<local, counters, config, once>>

(* A string has two words; Set and Get handle them one by one.               *)
RLock(r) == /\ r # Writer /\ In(3, r, "start") /\ ~writing /\ To(r, "first")
            /\ readers' = readers \union {r}
            /\ UNCHANGED <<local, counters, mu, writing, setting, got, once>>

Get(r, word) == /\ r # Writer /\ In(3, r, IF word = 1 THEN "first" ELSE "second")
                /\ To(r, IF word = 1 THEN "second" ELSE "unlock")
                /\ got' = [got EXCEPT ![r][word] = setting[word]]
                /\ UNCHANGED <<local, counters, mu, readers, writing, setting, once>>

RUnlock(r) == /\ r # Writer /\ In(3, r, "unlock") /\ To(r, "end")
              /\ readers' = readers \ {r}
              /\ UNCHANGED <<local, counters, mu, writing, setting, got, once>>

WLock(r) == /\ r = Writer /\ In(3, r, "start") /\ readers = {} /\ To(r, "first")
            /\ writing' = TRUE
            /\ UNCHANGED <<local, counters, mu, readers, setting, got, once>>

Set(r, word) == /\ r = Writer /\ In(3, r, IF word = 1 THEN "first" ELSE "second")
                /\ To(r, IF word = 1 THEN "second" ELSE "unlock")
                /\ setting' = [setting EXCEPT ![word] = 1]
                /\ UNCHANGED <<local, counters, mu, readers, writing, got, once>>

WUnlock(r) == /\ r = Writer /\ In(3, r, "unlock") /\ To(r, "end")
              /\ writing' = FALSE
              /\ UNCHANGED <<local, counters, mu, readers, setting, got, once>>

(* once.Do: the first runs initDB, the others wait for its end.              *)
OnceBegins(r) == /\ In(4, r, "start") /\ once = "new" /\ To(r, "init")
                 /\ once' = "running"
                 /\ UNCHANGED <<local, counters, mu, config>>

InitDB(r) == /\ In(4, r, "init") /\ To(r, "end")
             /\ once' = "done"
             /\ UNCHANGED <<local, counters, mu, config>>

OnceSkips(r) == /\ In(4, r, "start") /\ once = "done" /\ To(r, "end")
                /\ UNCHANGED <<local, counters, mu, config, once>>

AddInt64(r) == /\ In(5, r, "start") /\ To(r, "end")
               /\ atomic' = atomic + 1
               /\ UNCHANGED <<local, plain, safe, mu, config, once>>

(* wg.Wait(), and the goroutines of the next section.                        *)
NextSection == /\ stage < 6 /\ \A r \in Routines : spot[r] = "end"
               /\ stage' = stage + 1
               /\ spot' = [r \in Routines |-> "start"]
               /\ UNCHANGED <<local, counters, mu, config, once>>

Next == \/ NextSection
        \/ \E r \in Routines :
              \/ RaceRead(r) \/ RaceWrite(r)
              \/ Lock(r) \/ SafeRead(r) \/ SafeWrite(r) \/ Unlock(r)
              \/ RLock(r) \/ RUnlock(r) \/ WLock(r) \/ WUnlock(r)
              \/ \E word \in 1..2 : Get(r, word) \/ Set(r, word)
              \/ OnceBegins(r) \/ InitDB(r) \/ OnceSkips(r)
              \/ AddInt64(r)

Spec == Init /\ [][Next]_vars
-----------------------------------------------------------------------------
N == Cardinality(Routines)

(* The locked and the atomic counter count every goroutine, the racing one   *)
(* at least one and at most all; no reader sees half of an update; nobody    *)
(* goes past once.Do before the initialisation is over.                      *)
LocksProtect ==
    /\ stage > 1 => plain \in 1..N
    /\ stage > 2 => safe = N
    /\ stage > 5 => atomic = N
    /\ \A r \in Routines : stage = 3 /\ spot[r] \in {"unlock", "end"} =>
          got[r][1] = got[r][2]
    /\ stage = 4 /\ (\E r \in Routines : spot[r] = "end") => once = "done"
=============================================================================
