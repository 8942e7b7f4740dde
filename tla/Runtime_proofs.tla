---------------------------- MODULE Runtime_proofs ----------------------------
(***************************************************************************)
(* What the run of Runtime checks for two generations and two handlers,    *)
(* for any number of starts, handlers, calls and configurations: the       *)
(* types, DeadIsReported and SavesKept.                                    *)
(***************************************************************************)
EXTENDS Runtime, TLAPS

USE ConfigsAssumption, RuntimeBounds, NoneAssumption

\* What r.mu keeps together: no generation after the latest has been spawned, and
\* while Stop goes on the runtime says that it runs, and its generation is
\* cancelled.  A dispatcher's flag is only taken from a cancelled generation.
LifeInv ==
  /\ running => gen >= 1
  /\ \A g \in Generations : g > gen => run[g] = "none"
  /\ stop # "none" => running /\ gen \in cancelled
  /\ \A g \in Generations :
       run[g] = "accepting" /\ g \notin cancelled => flag[g]
  /\ DeadIsReported

\* Whatever is under way was given to SaveConfig; a save that none overlaps
\* writes to an empty file; and the file is intact only when nobody writes.
FileInv ==
  /\ \A h \in Handlers : handler[h].at # "idle" => handler[h].cfg \in saved
  /\ \A c \in saved : c.valid
  /\ file.holds \in saved \cup {None, Garbage}
  /\ \A h \in lone :
       Saving = {h} /\ (handler[h].at = "write" => file.length = 0)
  /\ \A h \in Handlers : handler[h].at = "write" => intact = None
  /\ intact # None => file.holds = intact

IInv == TypeOK /\ LifeInv /\ FileInv

LEMMA InitIInv == Init => IInv
<1> SUFFICES ASSUME Init PROVE IInv
  OBVIOUS
<1>1. TypeOK
  <2>1. /\ handler \in [Handlers -> [at : {"idle", "save", "write", "load"},
                                  cfg : {c \in Configs : c.valid} \cup {None}]]
        /\ file \in [holds : Configs \cup {None, Garbage}, length : Nat]
    BY DEF Init
  <2>2. /\ run \in [Generations -> {"none", "spawned", "listening", "accepting",
                                   "failed", "gone"}]
        /\ listener \in [Generations -> {"none", "open", "closed"}]
        /\ flag \in [Generations -> BOOLEAN]
        /\ watcher \in [Generations -> {"none", "waiting", "gone"}]
    BY DEF Init
  <2>3. gen \in 0..MaxStarts /\ lastErr \in 0..gen /\ calls \in 0..MaxCalls
    BY DEF Init
  <2>4. lone \subseteq Saving /\ cancelled \subseteq 1..gen /\ saved \subseteq Configs
    BY DEF Init
  <2>5. cfg \in Configs /\ cfg.valid /\ intact \in saved \cup {None}
    BY DEF Init
  <2>6. running \in BOOLEAN /\ stop \in {"none", "cancelled", "manager"}
    BY DEF Init
  <2> QED
    BY <2>1, <2>2, <2>3, <2>4, <2>5, <2>6, Zenon DEF TypeOK
<1>2. LifeInv
  BY DEF Init, LifeInv, DeadIsReported, Generations
<1>3. FileInv
  BY DEF Init, FileInv
<1> QED
  BY <1>1, <1>2, <1>3 DEF IInv

-----------------------------------------------------------------------------
(* Lifecycle: Start, Stop, UpdateConfig and the goroutines of Run *)

LifeStep ==
  \/ Start \/ StopCancel \/ StopStep \/ UpdateConfig
  \/ \E g \in Generations : RunStep(g) \/ Watch(g) \/ AcceptError(g)
FileStep ==
  \E h \in Handlers : Save(h) \/ Open(h) \/ Write(h) \/ WriteFail(h)
                      \/ Load(h) \/ Loaded(h)

\* No step of the lifecycle touches the file, a handler or what was saved.
LEMMA LifeKeepsFile == FileInv /\ LifeStep => FileInv' /\ UNCHANGED storage
BY DEF LifeStep, StopStep, RunStep, Start, StopCancel, StopDispatcher,
       StopManager, UpdateConfig, Listen, ListenFail, Runs, Report, Watch,
       AcceptError, FileInv, Saving, storage

\* Handlers change nothing of the lifecycle but the configuration.
LEMMA FileKeepsLife ==
  LifeInv /\ FileStep =>
    LifeInv' /\ UNCHANGED <<running, lastErr, stop, gen, cancelled, dispatcher>>
BY DEF FileStep, Save, Open, Write, WriteFail, Load, Loaded, LifeInv,
       DeadIsReported, lifecycle, dispatcher

LEMMA LifeType == IInv /\ LifeStep => TypeOK'
<1> SUFFICES ASSUME IInv, LifeStep PROVE TypeOK'
  OBVIOUS
<1> USE DEF IInv, TypeOK, LifeInv, Generations, Saving
<1>s. UNCHANGED storage
  BY LifeKeepsFile
<1>1. CASE Start
  BY <1>1, <1>s DEF Start, storage
<1>2. CASE StopCancel
  BY <1>2, <1>s DEF StopCancel, dispatcher, storage
<1>3. CASE StopDispatcher
  BY <1>3, <1>s DEF StopDispatcher, DispatcherStop, storage
<1>4. CASE StopManager
  BY <1>4, <1>s DEF StopManager, dispatcher, storage
<1>5. CASE UpdateConfig
  BY <1>5, <1>s DEF UpdateConfig, Accepts, dispatcher, storage
<1>6. ASSUME NEW g \in Generations, RunStep(g) PROVE TypeOK'
  <2>1. CASE Report(g)
    <3>1. g \in 1..gen
      BY <2>1 DEF Report
    <3> QED
      BY <2>1, <3>1, <1>s DEF Report, storage
  <2>2. CASE Listen(g)
    BY <2>2, <1>s DEF Listen, lifecycle, storage
  <2>3. CASE ListenFail(g)
    BY <2>3, <1>s DEF ListenFail, lifecycle, storage
  <2>4. CASE Runs(g)
    BY <2>4, <1>s DEF Runs, lifecycle, storage
  <2> QED
    BY <1>6, <2>1, <2>2, <2>3, <2>4 DEF RunStep
<1>7. ASSUME NEW g \in Generations, Watch(g) PROVE TypeOK'
  BY <1>7, <1>s DEF Watch, DispatcherStop, lifecycle, storage
<1>8. ASSUME NEW g \in Generations, AcceptError(g) PROVE TypeOK'
  BY <1>8, <1>s DEF AcceptError, lifecycle, storage
<1> QED
  BY <1>1, <1>2, <1>3, <1>4, <1>5, <1>6, <1>7, <1>8 DEF LifeStep, StopStep

\* A flag is taken only from a generation whose context is done, so an error of
\* any other one is reported.
LEMMA LifeKept == IInv /\ LifeStep => LifeInv'
<1> SUFFICES ASSUME IInv, LifeStep PROVE LifeInv'
  OBVIOUS
<1> USE DEF IInv, TypeOK, LifeInv, DeadIsReported, Generations
<1>1. CASE Start
  <2>1. gen' = gen + 1 /\ run' = [run EXCEPT ![gen + 1] = "spawned"]
    BY <1>1 DEF Start
  <2>2. \A g \in Generations : g > gen' => run'[g] = "none"
    BY <1>1, <2>1 DEF Start
  <2>3. \A g \in Generations :
          run'[g] = "accepting" /\ g \notin cancelled' => flag'[g]
    BY <1>1, <2>1 DEF Start
  <2>4. DeadIsReported'
    BY <1>1, <2>1 DEF Start
  <2> QED
    BY <1>1, <2>1, <2>2, <2>3, <2>4 DEF Start, Unlocked
<1>2. CASE StopCancel
  BY <1>2 DEF StopCancel, dispatcher, Unlocked
<1>3. CASE StopDispatcher
  BY <1>3 DEF StopDispatcher, DispatcherStop
<1>4. CASE StopManager
  BY <1>4 DEF StopManager, dispatcher
<1>5. CASE UpdateConfig
  BY <1>5 DEF UpdateConfig, Accepts, dispatcher
<1>6. ASSUME NEW g \in Generations, RunStep(g) PROVE LifeInv'
  <2>1. CASE Report(g)
    BY <2>1 DEF Report
  <2>2. CASE Listen(g)
    BY <2>2 DEF Listen, lifecycle
  <2>3. CASE ListenFail(g)
    BY <2>3 DEF ListenFail, lifecycle
  <2>4. CASE Runs(g)
    BY <2>4 DEF Runs, lifecycle
  <2> QED
    BY <1>6, <2>1, <2>2, <2>3, <2>4 DEF RunStep
<1>7. ASSUME NEW g \in Generations, Watch(g) PROVE LifeInv'
  BY <1>7 DEF Watch, DispatcherStop, lifecycle
<1>8. ASSUME NEW g \in Generations, AcceptError(g) PROVE LifeInv'
  BY <1>8 DEF AcceptError, lifecycle
<1> QED
  BY <1>1, <1>2, <1>3, <1>4, <1>5, <1>6, <1>7, <1>8 DEF LifeStep, StopStep

-----------------------------------------------------------------------------
(* The configuration file *)

\* Each step of a handler keeps the types, and what is known of the file.
LEMMA FileKept == IInv /\ FileStep => TypeOK' /\ FileInv'
<1> SUFFICES ASSUME IInv, NEW h \in Handlers,
                    Save(h) \/ Open(h) \/ Write(h) \/ WriteFail(h)
                      \/ Load(h) \/ Loaded(h)
             PROVE  TypeOK' /\ FileInv'
  BY DEF FileStep
<1>l. UNCHANGED <<running, lastErr, stop, gen, cancelled, dispatcher>>
  BY FileKeepsLife DEF FileStep, IInv
<1> USE DEF IInv, TypeOK, FileInv, Saving, To, Called, dispatcher, lifecycle
<1>1. CASE Save(h)
  BY <1>1, <1>l DEF Save
<1>2. CASE Open(h)
  BY <1>2, <1>l DEF Open
<1>3. CASE Write(h)
  BY <1>3, <1>l DEF Write, Over
<1>4. CASE WriteFail(h)
  BY <1>4, <1>l DEF WriteFail
<1>5. CASE Load(h)
  BY <1>5, <1>l DEF Load, Parsed
<1>6. CASE Loaded(h)
  BY <1>6, <1>l DEF Loaded, Accepts
<1> QED
  BY <1>1, <1>2, <1>3, <1>4, <1>5, <1>6

-----------------------------------------------------------------------------
(* Theorems *)

LEMMA StepIInv == IInv /\ [Next]_vars => IInv'
<1> SUFFICES ASSUME IInv, [Next]_vars PROVE IInv'
  OBVIOUS
<1>1. CASE LifeStep
  BY <1>1, LifeType, LifeKept, LifeKeepsFile DEF IInv
<1>2. CASE FileStep
  BY <1>2, FileKept, FileKeepsLife DEF IInv
<1>3. CASE UNCHANGED vars
  BY <1>3 DEF IInv, TypeOK, LifeInv, FileInv, DeadIsReported, Saving, vars,
              lifecycle, dispatcher, storage
<1> QED
  BY <1>1, <1>2, <1>3 DEF Next, LifeStep, FileStep

LEMMA Inductive == Spec => []IInv
<1> QED
  BY InitIInv, StepIInv, PTL DEF Spec

\* The state of Runtime, of each dispatcher and of the configuration file is well
\* formed, and the current configuration always passes Validate.
THEOREM TypeCorrect == Spec => []TypeOK
<1>1. IInv => TypeOK
  BY DEF IInv
<1> QED
  BY <1>1, Inductive, PTL

\* A Run that ended although nobody stopped it has left its error to be shown.
THEOREM AlwaysDeadIsReported == Spec => []DeadIsReported
<1>1. IInv => DeadIsReported
  BY DEF IInv, LifeInv
<1> QED
  BY <1>1, Inductive, PTL

\* With any number of handlers that save and load, what an undisturbed save wrote
\* is there, and nothing is loaded that was never saved.
THEOREM AlwaysSavesKept == Spec => []SavesKept
<1>1. IInv => SavesKept
  BY DEF IInv, FileInv, SavesKept
<1> QED
  BY <1>1, Inductive, PTL
=============================================================================
