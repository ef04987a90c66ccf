------------------------------- MODULE Pipeline -------------------------------
(* src/05_patterns/03_fan_in_fan_out: images go from the generator through    *)
(* the resize, compress and upload workers (stages 1, 2, 3) to main, over     *)
(* unbuffered channels; channel s carries the output of stage s, the          *)
(* generator being stage 0.  Channels close behind their last sender.         *)
EXTENDS Naturals, FiniteSets

CONSTANTS Resizers, Compressors, Uploaders,   \* the workers of each stage
          Count      \* images to generate, 1..Count

(* Every stage has a worker of its own.                                      *)
CrewAssumption ==
    /\ Resizers # {} /\ Compressors # {} /\ Uploaders # {}
    /\ Resizers \cap Compressors = {} /\ Compressors \cap Uploaders = {}
    /\ Resizers \cap Uploaders = {}
    /\ Count \in Nat

Crew == Resizers \union Compressors \union Uploaders

StageOf(w) == IF w \in Resizers THEN 1 ELSE IF w \in Compressors THEN 2 ELSE 3

VARIABLES
    generated,   \* images the generator has sent
    shut,        \* the closed channels
    at, holds,   \* where a worker is, and the image it has, 0 when none
    uploaded, failed,   \* images whose result main has read, without and with Err
    dropped,     \* history: images a worker let go of
    collecting,  \* main's range over the results goes on
    ctxDone      \* the context is cancelled or past its deadline

crew == <<at, holds>>
results == <<uploaded, failed, collecting>>
vars == <<generated, shut, crew, results, dropped, ctxDone>>

Images == 1..Count

Init == /\ generated = 0 /\ shut = {}
        /\ at = [w \in Crew |-> "range"] /\ holds = [w \in Crew |-> 0]
        /\ uploaded = {} /\ failed = {} /\ dropped = {}
        /\ collecting = TRUE /\ ctxDone = FALSE

Move(w, place, image) == /\ at' = [at EXCEPT ![w] = place]
                         /\ holds' = [holds EXCEPT ![w] = image]

(* The generator's send meets a resize worker that ranges; it returns after  *)
(* the last image or, at its select, on ctx.Done().                          *)
Generate(w) == /\ StageOf(w) = 1 /\ at[w] = "range"
               /\ 0 \notin shut /\ generated < Count
               /\ generated' = generated + 1
               /\ Move(w, "look", generated + 1)
               /\ UNCHANGED <<shut, results, dropped, ctxDone>>

GeneratorReturns == /\ 0 \notin shut
                    /\ generated = Count \/ ctxDone
                    /\ shut' = shut \union {0}
                    /\ UNCHANGED <<generated, crew, results, dropped, ctxDone>>

(* The look at ctx.Done() when an image arrives.  Resize and compress return *)
(* without it; upload has a result to send first, and sends it whatever      *)
(* happens.                                                                  *)
Look(w) ==
    /\ at[w] = "look"
    /\ \/ ~ctxDone /\ Move(w, "send", holds[w]) /\ UNCHANGED dropped
       \/ ctxDone /\ StageOf(w) = 3 /\ Move(w, "fail", holds[w]) /\ UNCHANGED dropped
       \/ /\ ctxDone /\ StageOf(w) < 3
          /\ Move(w, "done", 0)
          /\ dropped' = dropped \union {holds[w]}
    /\ UNCHANGED <<generated, shut, results, ctxDone>>

BugPassOn(w, v) ==
    /\ at[w] = "send" /\ at[v] = "range" /\ StageOf(v) = StageOf(w) + 1
    /\ at' = [at EXCEPT ![v] = "look"]
    /\ holds' = [holds EXCEPT ![v] = holds[w]]
    /\ UNCHANGED <<generated, shut, results, dropped, ctxDone>>

(* A send of w meets the receive of v, one stage on.                         *)
PassOn(w, v) ==
    /\ at[w] = "send" /\ at[v] = "range" /\ StageOf(v) = StageOf(w) + 1
    /\ at' = [at EXCEPT ![w] = "range", ![v] = "look"]
    /\ holds' = [holds EXCEPT ![w] = 0, ![v] = holds[w]]
    /\ UNCHANGED <<generated, shut, results, dropped, ctxDone>>

(* The select between the send and ctx.Done() takes the latter.              *)
GiveUp(w) == /\ at[w] = "send" /\ ctxDone
             /\ Move(w, "done", 0)
             /\ dropped' = dropped \union {holds[w]}
             /\ UNCHANGED <<generated, shut, results, ctxDone>>

(* main receives a result from an upload worker.                             *)
Collect(w) ==
    /\ collecting /\ StageOf(w) = 3
    /\ \/ /\ at[w] = "send"
          /\ uploaded' = uploaded \union {holds[w]}
          /\ Move(w, "range", 0)
          /\ UNCHANGED failed
       \/ /\ at[w] = "fail"
          /\ failed' = failed \union {holds[w]}
          /\ Move(w, "done", 0)
          /\ UNCHANGED uploaded
    /\ UNCHANGED <<generated, shut, collecting, dropped, ctxDone>>

(* The range of w ends when the channel before it is closed.                 *)
RangeEnds(w) == /\ at[w] = "range" /\ StageOf(w) - 1 \in shut
                /\ Move(w, "done", 0)
                /\ UNCHANGED <<generated, shut, results, dropped, ctxDone>>

BugAllDone(s) == \E w \in Crew : StageOf(w) = s /\ at[w] = "done"

AllDone(s) == \A w \in Crew : StageOf(w) = s => at[w] = "done"

(* go func() { wg.Wait(); close(out) }()                                     *)
Shut(s) == /\ s \notin shut /\ AllDone(s)
           /\ shut' = shut \union {s}
           /\ UNCHANGED <<generated, crew, results, dropped, ctxDone>>

MainReturns == /\ collecting /\ 3 \in shut
               /\ collecting' = FALSE
               /\ UNCHANGED <<generated, shut, crew, uploaded, failed, dropped, ctxDone>>

(* The context's deadline.                                                   *)
Expire == /\ collecting /\ ~ctxDone
          /\ ctxDone' = TRUE
          /\ UNCHANGED <<generated, shut, crew, results, dropped>>

Work(w) == \/ Generate(w) \/ Look(w) \/ GiveUp(w) \/ Collect(w) \/ RangeEnds(w)
           \/ \E v \in Crew : PassOn(w, v)

Next == \/ \E w \in Crew : Work(w)
        \/ \E s \in 1..3 : Shut(s)
        \/ GeneratorReturns \/ MainReturns \/ Expire

Spec == Init /\ [][Next]_vars
-----------------------------------------------------------------------------
TypeOK == /\ generated \in 0..Count /\ shut \subseteq 0..3
          /\ at \in [Crew -> {"range", "look", "send", "fail", "done"}]
          /\ holds \in [Crew -> 0..Count]
          /\ uploaded \subseteq Images /\ failed \subseteq Images
          /\ dropped \subseteq Images
          /\ collecting \in BOOLEAN /\ ctxDone \in BOOLEAN

InHand(i) == \E w \in Crew : holds[w] = i

(* Every image that was generated is in the hands of one worker, or main has *)
(* read one result of it, or it was dropped for the cancellation; no two of  *)
(* these at once, and nothing is ever dropped or failed without one.         *)
EveryImageAccountedFor ==
    /\ \A i \in Images : i <= generated
          <=> InHand(i) \/ i \in uploaded \/ i \in failed \/ i \in dropped
    /\ uploaded \cap failed = {} /\ uploaded \cap dropped = {} /\ failed \cap dropped = {}
    /\ \A w \in Crew : holds[w] \notin uploaded \union failed \union dropped
    /\ \A v, w \in Crew : v # w /\ holds[v] = holds[w] => holds[v] = 0
    /\ ~ctxDone => failed = {} /\ dropped = {}

(* A worker that can still send finds its channel open (a send on a closed   *)
(* one panics), and stages close in order unless the context is cancelled.   *)
NoSendOnShut == \A w \in Crew :
    /\ StageOf(w) \in shut => at[w] = "done"
    /\ at[w] # "done" => holds[w] # 0 \/ at[w] = "range"
    /\ at[w] = "done" /\ ~ctxDone => StageOf(w) - 1 \in shut

(* What main prints when it is through: with no cancellation every image was *)
(* uploaded.                                                                 *)
AllUploaded == ~collecting /\ ~ctxDone => uploaded = Images

PipelineInv == EveryImageAccountedFor /\ NoSendOnShut /\ AllUploaded
=============================================================================
