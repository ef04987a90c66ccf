----------------------------- MODULE RateLimiter -----------------------------
(* src/10_distributed/02_rate_limiter: the token buckets of the middleware,   *)
(* one per remote address, and requests that first look their bucket up and   *)
(* then ask it, each under a lock of its own.  A token is Unit parts and Rate *)
(* parts come in per tick, so that the float64 arithmetic of Allow is exact.  *)
EXTENDS Naturals, Sequences

CONSTANTS Addrs,      \* the remote addresses, ip:port
          Handlers,   \* requests being served at the same time
          Unit, Rate, Burst,
          MaxTime, MaxAllowed   \* bounds: ticks, and requests allowed per address

ASSUME RateAssumption == /\ Unit \in Nat \ {0} /\ Rate \in Nat /\ Burst \in Nat
                         /\ MaxTime \in Nat /\ MaxAllowed \in Nat

VARIABLES
    now,
    known,      \* the keys of rl.limiters
    tokens,     \* of the bucket, in parts
    last,       \* lastRefill
    asking,     \* the address whose bucket a handler has looked up, or Idle
    allowed     \* history: per address, when its requests were let through

CONSTANT Idle

bucket == <<tokens, last>>
vars == <<now, known, bucket, asking, allowed>>

Full == Burst * Unit

Init == /\ now = 0 /\ known = {}
        /\ tokens = [a \in Addrs |-> Full] /\ last = [a \in Addrs |-> 0]
        /\ asking = [h \in Handlers |-> Idle]
        /\ allowed = [a \in Addrs |-> <<>>]

(* getLimiter: a new address gets a full bucket.                              *)
GetLimiter(h, a) ==
    /\ asking[h] = Idle
    /\ asking' = [asking EXCEPT ![h] = a]
    /\ known' = known \union {a}
    /\ IF a \in known
       THEN UNCHANGED bucket
       ELSE /\ tokens' = [tokens EXCEPT ![a] = Full]
            /\ last' = [last EXCEPT ![a] = now]
    /\ UNCHANGED <<now, allowed>>

BugRefilled(a) == tokens[a] + (now - last[a]) * Rate

Refilled(a) == LET filled == tokens[a] + (now - last[a]) * Rate
               IN IF filled > Full THEN Full ELSE filled

(* Allow, and the answer of the middleware: next, or 429.                     *)
Pass(h, a) == /\ asking[h] = a /\ a # Idle
              /\ Refilled(a) >= Unit
              /\ Len(allowed[a]) < MaxAllowed
              /\ tokens' = [tokens EXCEPT ![a] = Refilled(a) - Unit]
              /\ last' = [last EXCEPT ![a] = now]
              /\ asking' = [asking EXCEPT ![h] = Idle]
              /\ allowed' = [allowed EXCEPT ![a] = Append(@, now)]
              /\ UNCHANGED <<now, known>>

Block(h, a) == /\ asking[h] = a /\ a # Idle
               /\ Refilled(a) < Unit
               /\ tokens' = [tokens EXCEPT ![a] = Refilled(a)]
               /\ last' = [last EXCEPT ![a] = now]
               /\ asking' = [asking EXCEPT ![h] = Idle]
               /\ UNCHANGED <<now, known, allowed>>

Tick == /\ now < MaxTime
        /\ now' = now + 1
        /\ UNCHANGED <<known, bucket, asking, allowed>>

Next == \/ \E h \in Handlers, a \in Addrs :
              GetLimiter(h, a) \/ Pass(h, a) \/ Block(h, a)
        \/ Tick

Spec == Init /\ [][Next]_vars
-----------------------------------------------------------------------------
TypeOK == /\ now \in Nat /\ known \subseteq Addrs
          /\ tokens \in [Addrs -> Nat] /\ last \in [Addrs -> Nat]
          /\ asking \in [Handlers -> Addrs \union {Idle}]
          /\ allowed \in [Addrs -> Seq(Nat)]

(* "Allows bursts up to B while maintaining average rate R": whatever the     *)
(* requests and however they overlap, the k requests of one address let       *)
(* through in a window of t ticks satisfy k <= B + R * t.                     *)
EveryWindowBounded ==
    \A a \in Addrs : \A i, j \in 1..Len(allowed[a]) : i <= j =>
        (j - i + 1) * Unit <= Full + (allowed[a][j] - allowed[a][i]) * Rate

(* What keeps it so: a full window can be followed only by what has come in   *)
(* since, and the tokens left count against every window still open.          *)
WindowBudget ==
    /\ \A a \in Addrs : tokens[a] <= Full /\ last[a] <= now
    /\ \A a \in Addrs : \A i \in 1..Len(allowed[a]) :
          /\ allowed[a][i] <= last[a]
          /\ (Len(allowed[a]) - i + 1) * Unit + tokens[a]
                <= Full + (last[a] - allowed[a][i]) * Rate
    /\ \A a \in Addrs : a \notin known => allowed[a] = <<>>
    /\ \A h \in Handlers : asking[h] # Idle => asking[h] \in known

(* The three together, which every step keeps.                                *)
LimiterInv == TypeOK /\ EveryWindowBounded /\ WindowBudget
==============================================================================
