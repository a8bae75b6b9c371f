-------------------------- MODULE LauncherProofs --------------------------
(***************************************************************************)
(* Theorems about the launcher, for all machines, sets of signals and     *)
(* exit codes.                                                             *)
(***************************************************************************)
EXTENDS Launcher, FiniteSetTheorems, FunctionTheorems, SequenceTheorems, TLAPS

\* What the proofs use of the types
Types ==
  /\ pc \in Pc
  /\ monitor \in Monitor
  /\ scripts \in Nat
  /\ child \in {"none", "running", "dead", "failed", "reaped"}

\* The launcher's place and the child's state belong together
Phases ==
  /\ pc \in {"resolve", "monitor", "spawn"} => child = "none"
  /\ pc \in {"handlers", "await"} => child \in {"running", "dead", "failed"}
  /\ child = "reaped" => pc \in {"draining", "ended"} /\ ~monitor.interval
  /\ IF child \in {"dead", "reaped"} THEN childEnd \in Ends ELSE childEnd = NotEnded
  /\ pc = "draining" =>
       /\ child = "reaped"
       /\ childEnd.type = "signal" /\ childEnd.signal \in Handled

\* The flag inFlight counts the scripts, and only a monitor runs one
Scripts ==
  /\ pc # "ended" => scripts = IF monitor.inFlight THEN 1 ELSE 0
  /\ scripts <= 1
  /\ pc \in {"resolve", "monitor"} => ~monitor.inFlight
  /\ ~monitor.created =>
       title = "shell" /\ ~monitor.interval /\ ~monitor.inFlight

IInv == Types /\ Phases /\ Scripts /\ StatusMirrored /\ TitleGivenBack

-----------------------------------------------------------------------------
LEMMA InitIInv == Init => IInv
<1> SUFFICES ASSUME Init PROVE IInv
  OBVIOUS
<1>1. Types
  BY DEF Init, Types, Pc, Monitor, NoMonitor
<1>2. Phases
  BY DEF Init, Phases
<1>3. Scripts
  <2>1. ~monitor.interval /\ ~monitor.inFlight
    BY DEF Init, NoMonitor
  <2>2. pc = "resolve" /\ scripts = 0 /\ title = "shell"
    BY DEF Init
  <2>3. scripts = IF monitor.inFlight THEN 1 ELSE 0
    BY <2>1, <2>2
  <2> QED
    BY <2>1, <2>2, <2>3 DEF Scripts
<1>4. StatusMirrored /\ TitleGivenBack
  BY DEF Init, StatusMirrored, TitleGivenBack, OwnEnd
<1> QED
  BY <1>1, <1>2, <1>3, <1>4 DEF IInv

\* The ends of the child are codes and signals, and neither is "no end"
LEMMA EndKinds ==
  ASSUME NEW e \in Ends
  PROVE  /\ e # NotEnded
         /\ \/ e.type = "code"
            \/ e.type = "signal" /\ e.signal \in Handled \cup Fatal
BY DEF Ends, Code, Signal, NotEnded, Signals

\* What a tick does to the monitor and the scripts
LEMMA TickedMonitor ==
  ASSUME NEW m \in Monitor, Ticked(m)
  PROVE  /\ monitor' \in Monitor
         /\ monitor'.created = m.created /\ monitor'.interval = m.interval
         /\ \/ monitor' = m /\ scripts' = scripts
            \/ ~m.inFlight /\ monitor'.inFlight /\ scripts' = scripts + 1
BY DEF Ticked, Tick, Monitor

\* What dispose does to the monitor and the title
LEMMA DisposedMonitor ==
  ASSUME monitor \in Monitor, Dispose, Scripts
  PROVE  /\ monitor' \in Monitor
         /\ monitor'.created = monitor.created /\ ~monitor'.interval
         /\ monitor'.inFlight = monitor.inFlight
         /\ GivenBack'
BY DEF Dispose, Monitor, Scripts, GivenBack

-----------------------------------------------------------------------------
LEMMA StepIInv == IInv /\ [Next]_vars => IInv'
<1> SUFFICES ASSUME IInv, [Next]_vars PROVE IInv'
  OBVIOUS
<1> USE DEF IInv
<1>1. CASE Resolve
  <2>1. Types' /\ Phases' /\ Scripts'
    BY <1>1 DEF Resolve, Types, Pc, Phases, Scripts, place, own, usage, binary, sent
  <2>2. StatusMirrored' /\ TitleGivenBack'
    BY <1>1 DEF Resolve, Phases, StatusMirrored, TitleGivenBack, OwnEnd, binary
  <2> QED
    BY <2>1, <2>2
<1>2. CASE MaybeStart
  <2>1. /\ monitor' \in Monitor
        /\ \/ monitor' = monitor /\ scripts' = scripts
           \/ monitor'.created /\ scripts' = IF monitor'.inFlight THEN 1 ELSE 0
    <3>1. CASE UNCHANGED <<monitor, scripts>>
      BY <3>1 DEF Types
    <3>2. CASE Ticked([NoMonitor EXCEPT !.created = TRUE, !.interval = TRUE])
      <4> DEFINE m == [NoMonitor EXCEPT !.created = TRUE, !.interval = TRUE]
      <4>1. m \in Monitor /\ m.created /\ ~m.inFlight
        BY DEF Monitor, NoMonitor
      <4>2. scripts = 0
        BY <1>2 DEF MaybeStart, Scripts
      <4>3. Ticked(m)
        BY <3>2
      <4> HIDE DEF m
      <4>4. /\ monitor' \in Monitor /\ monitor'.created = m.created
            /\ \/ monitor' = m /\ scripts' = scripts
               \/ ~m.inFlight /\ monitor'.inFlight /\ scripts' = scripts + 1
        BY <4>1, <4>3, TickedMonitor
      <4> QED
        BY <4>1, <4>2, <4>4
    <3> QED
      BY <1>2, <3>1, <3>2 DEF MaybeStart
  <2>2. Types' /\ Phases' /\ Scripts'
    BY <1>2, <2>1 DEF MaybeStart, Types, Pc, Phases, Scripts, place, binary
  <2>3. StatusMirrored' /\ TitleGivenBack'
    <3>1. child' = "none"
      BY <1>2 DEF MaybeStart, Phases, binary
    <3> QED
      BY <3>1 DEF StatusMirrored, TitleGivenBack, OwnEnd
  <2> QED
    BY <2>2, <2>3
<1>3. CASE Spawn
  <2>1. Types' /\ Phases' /\ Scripts'
    BY <1>3 DEF Spawn, Types, Pc, Phases, Scripts, usage
  <2>2. StatusMirrored' /\ TitleGivenBack'
    <3>1. \/ child' \in {"running", "failed"} /\ pc' = "handlers"
          \/ child' = "none"
      BY <1>3 DEF Spawn, Phases
    <3> QED
      BY <3>1 DEF StatusMirrored, TitleGivenBack, OwnEnd
  <2> QED
    BY <2>1, <2>2
<1>4. CASE InstallHandlers
  <2>1. Types' /\ Phases' /\ Scripts'
    BY <1>4 DEF InstallHandlers, Types, Pc, Phases, Scripts, usage, binary
  <2>2. StatusMirrored' /\ TitleGivenBack'
    <3>1. child' # "reaped" /\ pc' = "await"
      BY <1>4 DEF InstallHandlers, Phases, binary
    <3> QED
      BY <3>1 DEF StatusMirrored, TitleGivenBack, OwnEnd
  <2> QED
    BY <2>1, <2>2
<1>5. CASE IntervalFires
  <2>1. /\ monitor' \in Monitor
        /\ monitor'.created = monitor.created /\ monitor'.interval = monitor.interval
        /\ \/ monitor' = monitor /\ scripts' = scripts
           \/ ~monitor.inFlight /\ monitor'.inFlight /\ scripts' = scripts + 1
    BY <1>5, TickedMonitor DEF IntervalFires, Types
  <2>2. Types' /\ Phases' /\ Scripts'
    BY <1>5, <2>1 DEF IntervalFires, Looping, Types, Pc, Phases, Scripts, own, binary
  <2>3. StatusMirrored' /\ TitleGivenBack'
    <3>1. child' # "reaped" /\ pc' # "ended"
      BY <1>5 DEF IntervalFires, Looping, Phases, own, binary
    <3> QED
      BY <3>1 DEF StatusMirrored, TitleGivenBack, OwnEnd
  <2> QED
    BY <2>2, <2>3
<1>6. CASE ScriptCloses
  <2>1. /\ monitor' \in Monitor
        /\ monitor'.created = monitor.created /\ monitor'.interval = monitor.interval
        /\ scripts' = 0
        /\ pc = "ended" \/ (~monitor'.inFlight /\ monitor.inFlight)
        /\ pc = "ended" => monitor' = monitor /\ title' = title
    <3>1. scripts = 1 /\ scripts' = 0
      BY <1>6 DEF ScriptCloses, Types, Scripts
    <3>2. CASE pc = "ended"
      BY <1>6, <3>1, <3>2 DEF ScriptCloses, Looping, Types
    <3>3. CASE pc # "ended"
      <4>1. monitor' = [monitor EXCEPT !.inFlight = FALSE] /\ monitor.inFlight
        BY <1>6, <3>1, <3>3 DEF ScriptCloses, Scripts
      <4> QED
        BY <3>1, <3>3, <4>1 DEF Types, Monitor
    <3> QED
      BY <3>2, <3>3
  <2>2. Types' /\ Phases' /\ Scripts'
    BY <1>6, <2>1 DEF ScriptCloses, Types, Pc, Phases, Scripts, own, binary
  <2>3. UNCHANGED <<pc, result, child, childEnd>>
    BY <1>6 DEF ScriptCloses, own, binary
  <2>4. StatusMirrored'
    BY <2>3 DEF StatusMirrored, OwnEnd
  <2>5. TitleGivenBack'
    <3>1. CASE pc = "ended"
      <4>1. UNCHANGED <<monitor, title>> /\ scripts' = 0
        BY <2>1, <3>1
      <4> QED
        BY <2>3, <4>1 DEF TitleGivenBack, GivenBack, LateScript
    <3>2. CASE pc # "ended" /\ child = "reaped"
      <4>1. childEnd.type = "signal" /\ childEnd.signal \in Handled
        BY <3>2 DEF Phases
      <4>2. monitor'.created /\ scripts' = 0
        BY <2>1, <3>2 DEF Scripts
      <4>3. LateScript'
        BY <2>3, <4>1, <4>2 DEF LateScript
      <4> QED
        BY <4>3 DEF TitleGivenBack
    <3>3. CASE pc # "ended" /\ child # "reaped"
      BY <2>3, <3>3 DEF TitleGivenBack
    <3> QED
      BY <3>1, <3>2, <3>3
  <2> QED
    BY <2>2, <2>4, <2>5
<1>7. CASE ChildEnds
  <2>1. Types' /\ Phases' /\ Scripts'
    BY <1>7 DEF ChildEnds, Types, Pc, Phases, Scripts, own, usage
  <2>2. StatusMirrored' /\ TitleGivenBack'
    BY <1>7 DEF ChildEnds, StatusMirrored, TitleGivenBack, OwnEnd, own
  <2> QED
    BY <2>1, <2>2
<1>8. CASE ChildError
  <2>1. /\ monitor' \in Monitor
        /\ monitor'.created = monitor.created /\ ~monitor'.interval
        /\ monitor'.inFlight = monitor.inFlight
        /\ GivenBack'
    BY <1>8, DisposedMonitor DEF ChildError, Types
  <2>2. Types' /\ Phases' /\ Scripts'
    BY <1>8, <2>1 DEF ChildError, Types, Pc, Phases, Scripts, GivenBack, binary
  <2>3. StatusMirrored' /\ TitleGivenBack'
    BY <1>8, <2>1 DEF ChildError, StatusMirrored, TitleGivenBack, OwnEnd, binary
  <2> QED
    BY <2>2, <2>3
<1>9. CASE ChildExit
  <2>1. /\ monitor' \in Monitor
        /\ monitor'.created = monitor.created /\ ~monitor'.interval
        /\ monitor'.inFlight = monitor.inFlight
        /\ GivenBack'
    BY <1>9, DisposedMonitor DEF ChildExit, Types
  <2>2. childEnd \in Ends /\ childEnd' = childEnd /\ child' = "reaped"
    BY <1>9 DEF ChildExit, Phases
  <2>3. \/ /\ pc' = "draining"
           /\ childEnd.type = "signal" /\ childEnd.signal \in Handled
        \/ pc' = "ended" /\ result' = childEnd
    BY <1>9 DEF ChildExit, Mirror, Caught, Looping
  <2>4. Types' /\ Phases' /\ Scripts'
    BY <1>9, <2>1, <2>2, <2>3 DEF ChildExit, Types, Pc, Phases, Scripts, GivenBack, place
  <2>5. StatusMirrored' /\ TitleGivenBack'
    BY <2>1, <2>2, <2>3 DEF StatusMirrored, TitleGivenBack, OwnEnd
  <2> QED
    BY <2>4, <2>5
<1>10. CASE SignalComes
  <2>1. PICK s \in Signals :
          /\ pc # "ended"
          /\ \/ pc' = pc /\ result' = result
             \/ pc' = "ended" /\ result' = Signal(s)
          /\ UNCHANGED <<place, usage, binary>>
    BY <1>10 DEF SignalComes
  <2>2. Types' /\ Phases' /\ Scripts'
    BY <2>1 DEF Types, Pc, Phases, Scripts, usage, binary
  <2>3. TitleGivenBack'
    <3>1. UNCHANGED <<child, childEnd, monitor, scripts, title>>
      BY <2>1 DEF usage, binary
    <3>2. CASE child = "reaped"
      <4>1. (GivenBack \/ LateScript) /\ UNCHANGED <<GivenBack, LateScript>>
        BY <3>1, <3>2 DEF TitleGivenBack, GivenBack, LateScript
      <4> QED
        BY <4>1 DEF TitleGivenBack
    <3>3. CASE child # "reaped"
      <4>1. pc' # "ended" \/ result'.type # "code"
        BY <2>1 DEF Signal
      <4> QED
        BY <3>1, <3>3, <4>1 DEF TitleGivenBack
    <3> QED
      BY <3>2, <3>3
  <2>4. StatusMirrored'
    <3>1. CASE child # "reaped"
      BY <2>1, <3>1 DEF StatusMirrored, OwnEnd, binary
    <3>2. CASE child = "reaped"
      <4>1. childEnd.type = "signal" /\ childEnd.signal \in Handled
        BY <2>1, <3>2 DEF Phases
      <4> QED
        BY <2>1, <4>1, LauncherAssumption DEF StatusMirrored, OwnEnd, binary
    <3> QED
      BY <3>1, <3>2
  <2> QED
    BY <2>2, <2>3, <2>4
<1>11. CASE ForwardSignal
  <2>1. UNCHANGED <<place, own, usage, binary>>
    BY <1>11 DEF ForwardSignal
  <2>2. Types' /\ Phases' /\ Scripts'
    BY <2>1 DEF Types, Phases, Scripts, own, usage, binary
  <2>3. StatusMirrored' /\ TitleGivenBack'
    BY <2>1 DEF StatusMirrored, TitleGivenBack, GivenBack, LateScript, OwnEnd,
                own, usage, binary
  <2> QED
    BY <2>2, <2>3
<1>12. CASE LoopEmpties
  <2>1. /\ child = "reaped" /\ childEnd.type = "signal"
        /\ childEnd.signal \in Handled /\ childEnd \in Ends
    BY <1>12 DEF LoopEmpties, Phases
  <2>2. Types' /\ Phases' /\ Scripts'
    BY <1>12, <2>1 DEF LoopEmpties, Types, Pc, Phases, Scripts, usage, binary
  <2>3. StatusMirrored' /\ TitleGivenBack'
    BY <1>12, <2>1, LauncherAssumption
    DEF LoopEmpties, StatusMirrored, TitleGivenBack, GivenBack, LateScript, OwnEnd,
        usage, binary
  <2> QED
    BY <2>2, <2>3
<1>13. CASE UNCHANGED vars
  <2>1. Types' /\ Phases' /\ Scripts'
    BY <1>13 DEF vars, Types, Phases, Scripts, own, usage, binary
  <2>2. StatusMirrored' /\ TitleGivenBack'
    BY <1>13 DEF vars, StatusMirrored, TitleGivenBack, GivenBack, LateScript, OwnEnd,
                 own, usage, binary
  <2> QED
    BY <2>1, <2>2
<1> QED
  BY <1>1, <1>2, <1>3, <1>4, <1>5, <1>6, <1>7, <1>8, <1>9, <1>10, <1>11, <1>12,
     <1>13 DEF Next

LEMMA Invariant == Spec => []IInv
BY InitIInv, StepIInv, PTL DEF Spec

-----------------------------------------------------------------------------
LEMMA TypeStep == TypeOK /\ IInv /\ [Next]_vars => TypeOK'
<1> SUFFICES ASSUME TypeOK, IInv, [Next]_vars PROVE TypeOK'
  OBVIOUS
<1>1. /\ pc' \in Pc /\ monitor' \in Monitor /\ scripts' \in Nat
      /\ child' \in {"none", "running", "dead", "failed", "reaped"}
  BY StepIInv DEF IInv, Types
<1>2. host' \in Hosts /\ vendorRoot' \in {"", "package", "local"}
  <2>1. host' = host /\ vendorRoot' \in {vendorRoot, VendorRoot(host)}
    BY DEF Next, Resolve, MaybeStart, Spawn, InstallHandlers, IntervalFires, ScriptCloses,
           ChildEnds, ChildError, ChildExit, SignalComes, ForwardSignal, LoopEmpties,
           vars, place
  <2> QED
    BY <2>1 DEF TypeOK, VendorRoot
<1>3. childEnd' \in Ends \cup {NotEnded}
  BY DEF Next, Resolve, MaybeStart, Spawn, InstallHandlers, IntervalFires, ScriptCloses,
         ChildEnds, ChildError, ChildExit, SignalComes, ForwardSignal, LoopEmpties,
         vars, binary, TypeOK
<1>4. result' \in Ends \cup {NotEnded}
  <2>1. \A s \in Signals : Signal(s) \in Ends
    BY DEF Ends
  <2>2. Code(0) \in Ends /\ Code(1) \in Ends
    BY LauncherAssumption DEF Ends
  <2>3. \/ result' \in {result, Code(0), Code(1), childEnd}
        \/ \E s \in Signals : result' = Signal(s)
    BY DEF Next, Resolve, MaybeStart, Spawn, InstallHandlers, IntervalFires, ScriptCloses,
           ChildEnds, ChildError, ChildExit, SignalComes, ForwardSignal, LoopEmpties,
           Mirror, vars, own
  <2> QED
    BY <2>1, <2>2, <2>3 DEF TypeOK
<1>5. title' \in {"shell", "usage", "unavailable", "Codex"}
  <2>1. title' \in {title, "usage", "unavailable", "Codex"}
    BY DEF Next, Resolve, MaybeStart, Spawn, InstallHandlers, IntervalFires, ScriptCloses,
           ChildEnds, ChildError, ChildExit, SignalComes, ForwardSignal, LoopEmpties,
           Dispose, TitleOf, vars, usage
  <2> QED
    BY <2>1 DEF TypeOK
<1>6. childEnv'.markers \subseteq {"bun", "npm"}
  <2>1. host.markers \subseteq {"bun", "npm"}
    BY LauncherAssumption DEF TypeOK, Host
  <2>2. childEnv' \in {childEnv, ChildEnv(host)}
    BY DEF Next, Resolve, MaybeStart, Spawn, InstallHandlers, IntervalFires, ScriptCloses,
           ChildEnds, ChildError, ChildExit, SignalComes, ForwardSignal, LoopEmpties,
           vars, binary
  <2> QED
    <3>1. CASE childEnv' = childEnv
      BY <3>1 DEF TypeOK
    <3>2. CASE childEnv' = ChildEnv(host)
      <4>1. childEnv'.markers
              = host.markers \cup {IF PackageManager(host) = "bun" THEN "bun" ELSE "npm"}
        BY <3>2 DEF ChildEnv
      <4> QED
        BY <2>1, <4>1
    <3> QED
      BY <2>2, <3>1, <3>2
<1>7. killed' \in BOOLEAN
  BY DEF Next, Resolve, MaybeStart, Spawn, InstallHandlers, IntervalFires, ScriptCloses,
         ChildEnds, ChildError, ChildExit, SignalComes, ForwardSignal, LoopEmpties,
         vars, sent, TypeOK
<1>8. received' \subseteq Handled
  <2>1. CASE SignalComes
    BY <2>1 DEF SignalComes, Caught, TypeOK
  <2>2. CASE ChildExit
    BY <2>2 DEF ChildExit, Mirror, Caught, TypeOK
  <2>3. CASE ~SignalComes /\ ~ChildExit
    BY <2>3
    DEF Next, Resolve, MaybeStart, Spawn, InstallHandlers, IntervalFires, ScriptCloses,
        ChildEnds, ChildError, ForwardSignal, LoopEmpties, vars, sent, TypeOK
  <2> QED
    BY <2>1, <2>2, <2>3
<1>9. toChild' \subseteq Signals
  <2>1. \/ toChild' = toChild
        \/ \E s \in Signals : toChild' \subseteq toChild \cup {s}
    BY DEF Next, Resolve, MaybeStart, Spawn, InstallHandlers, IntervalFires, ScriptCloses,
           ChildEnds, ChildError, ChildExit, SignalComes, ForwardSignal, LoopEmpties,
           vars, sent, TypeOK, Signals
  <2> QED
    BY <2>1 DEF TypeOK
<1> QED
  BY <1>1, <1>2, <1>3, <1>4, <1>5, <1>6, <1>7, <1>8, <1>9 DEF TypeOK

\* Every variable keeps its type, for all machines, signals and codes.
THEOREM TypeCorrect == Spec => []TypeOK
<1>1. Init => TypeOK
  <2> SUFFICES ASSUME Init PROVE TypeOK
    OBVIOUS
  <2>1. childEnv.markers = {}
    BY DEF Init
  <2>2. monitor \in Monitor
    BY DEF Init, Monitor, NoMonitor
  <2> QED
    BY <2>1, <2>2 DEF Init, TypeOK, Pc
<1> QED
  BY <1>1, TypeStep, Invariant, PTL DEF Spec

-----------------------------------------------------------------------------
\* One snapshot script at a time, whatever its duration (tick, 281-294).
THEOREM OneScript == Spec => []OneScriptAtATime
<1>1. IInv => OneScriptAtATime
  BY DEF IInv, Types, Scripts, OneScriptAtATime, Looping
<1> QED
  BY <1>1, Invariant, PTL

\* The launcher that ends by itself reports the end of its child, if that is a
\* code or a signal it does not catch (385-391).
THEOREM Mirrors == Spec => []StatusMirrored
<1>1. IInv => StatusMirrored
  BY DEF IInv
<1> QED
  BY <1>1, Invariant, PTL

\* From the end of the child or the report of its failed start on, the title is the
\* one that dispose leaves, however the launcher ends, until a script under way at
\* dispose answers to a launcher that drains (288, 301-307).
THEOREM GivesTitleBack == Spec => []TitleGivenBack
<1>1. IInv => TitleGivenBack
  BY DEF IInv
<1> QED
  BY <1>1, Invariant, PTL

\* No script is started after the exit event of the child (301-307).
THEOREM NoLateScript == Spec => NoScriptAfterExit
<1>1. IInv /\ [Next]_vars => [child = "reaped" => scripts' <= scripts]_vars
  <2> SUFFICES ASSUME IInv, Next, child = "reaped" PROVE scripts' <= scripts
    OBVIOUS
  <2>1. scripts \in Nat /\ pc \in {"draining", "ended"} /\ ~monitor.interval
    BY DEF IInv, Types, Phases
  <2>2. ~MaybeStart /\ ~IntervalFires
    BY <2>1 DEF MaybeStart, IntervalFires
  <2>3. CASE ScriptCloses
    BY <2>1, <2>3 DEF ScriptCloses
  <2>4. CASE ~ScriptCloses
    <3>1. scripts' = scripts
      BY <2>2, <2>4
      DEF Next, Resolve, Spawn, InstallHandlers, ChildEnds, ChildError, ChildExit,
          SignalComes, ForwardSignal, LoopEmpties, usage
    <3> QED
      BY <2>1, <3>1
  <2> QED
    BY <2>3, <2>4
<1> QED
  BY <1>1, Invariant, PTL DEF Spec, NoScriptAfterExit

(***************************************************************************)
(* What is left of PATH without its empty entries.                         *)
(***************************************************************************)
Kept(path)    == {i \in 1 .. Len(path) : path[i] # ""}
Rank(path, i) == Cardinality({j \in Kept(path) : j <= i})
At(path, n)   == CHOOSE i \in Kept(path) : Rank(path, i) = n

LEMMA NonEmptyByRank ==
  ASSUME NEW path
  PROVE  NonEmpty(path) = [n \in 1 .. Cardinality(Kept(path)) |-> path[At(path, n)]]
BY DEF NonEmpty, Kept, Rank, At

LEMMA KeptIsFinite ==
  ASSUME NEW path \in Seq(STRING)
  PROVE  /\ Kept(path) \subseteq 1 .. Len(path)
         /\ IsFiniteSet(Kept(path)) /\ Cardinality(Kept(path)) \in Nat
<1>1. Len(path) \in Nat
  OBVIOUS
<1>2. IsFiniteSet(1 .. Len(path))
  BY <1>1, FS_Interval
<1>3. Kept(path) \subseteq 1 .. Len(path)
  BY DEF Kept
<1> QED
  BY <1>2, <1>3, FS_Subset, FS_CardinalityType

\* The entries kept are numbered in their order, from 1 on and without a gap.
LEMMA RankIsPlace ==
  ASSUME NEW path \in Seq(STRING)
  PROVE  /\ \A i \in Kept(path) : Rank(path, i) \in 1 .. Cardinality(Kept(path))
         /\ \A i, j \in Kept(path) : i < j => Rank(path, i) < Rank(path, j)
         /\ \A n \in 1 .. Cardinality(Kept(path)) : \E i \in Kept(path) : Rank(path, i) = n
<1> DEFINE K    == Kept(path)
           k    == Cardinality(K)
           U(i) == {j \in K : j <= i}
<1>1. K \subseteq Int /\ IsFiniteSet(K) /\ k \in Nat
  BY KeptIsFinite
<1>2. ASSUME NEW i \in K
      PROVE  IsFiniteSet(U(i)) /\ Cardinality(U(i)) \in 1 .. k
  <2>1. /\ IsFiniteSet(U(i)) /\ Cardinality(U(i)) <= k /\ Cardinality(U(i)) \in Nat
    BY <1>1, FS_Subset, FS_CardinalityType
  <2>2. Cardinality(U(i)) # 0
    <3>1. i \in U(i)
      BY <1>1
    <3>2. U(i) # {}
      BY <3>1
    <3> HIDE DEF U
    <3> QED
      BY <2>1, <3>2, FS_EmptySet
  <2> HIDE DEF k, U
  <2> QED
    BY <1>1, <2>1, <2>2
<1>3. ASSUME NEW i \in K, NEW j \in K, i < j
      PROVE  Cardinality(U(i)) < Cardinality(U(j))
  <2>1. U(i) \subseteq U(j) /\ j \in U(j) /\ j \notin U(i)
    BY <1>1, <1>3
  <2> HIDE DEF U, k
  <2>2. /\ IsFiniteSet(U(j)) /\ Cardinality(U(i)) \in Int /\ Cardinality(U(j)) \in Int
    BY <1>1, <1>2
  <2>3. Cardinality(U(i)) <= Cardinality(U(j)) /\ Cardinality(U(i)) # Cardinality(U(j))
    BY <2>1, <2>2, FS_Subset
  <2> QED
    BY <2>2, <2>3
<1>4. ASSUME NEW n \in 1 .. k PROVE \E i \in K : Cardinality(U(i)) = n
  <2>0. k = Cardinality(K)
    OBVIOUS
  <2> HIDE DEF U, k
  <2> DEFINE f == [i \in K |-> Cardinality(U(i))]
  <2>1. f \in [K -> 1 .. k]
    BY <1>2
  <2>2. ASSUME NEW i \in K, NEW j \in K, f[i] = f[j] PROVE i = j
    <3>1. f[i] = Cardinality(U(i)) /\ f[j] = Cardinality(U(j)) /\ f[i] \in Int /\ f[j] \in Int
      BY <1>1, <1>2
    <3>2. ~(i < j) /\ ~(j < i)
      BY <1>3, <2>2, <3>1
    <3> QED
      BY <1>1, <3>2
  <2>3. f \in Injection(K, 1 .. k)
    BY <2>1, <2>2, Fun_IsInj
  <2>4. IsFiniteSet(1 .. k) /\ Cardinality(1 .. k) = k
    BY <1>1, FS_Interval
  <2> HIDE DEF f
  <2>5. f \in Surjection(K, 1 .. k)
    BY <2>0, <2>3, <2>4, FS_Injection
  <2>6. \E i \in K : f[i] = n
    BY <2>5 DEF Surjection
  <2> QED
    BY <2>6 DEF f
<1> QED
  BY <1>2, <1>3, <1>4 DEF Rank

LEMMA AtIsKept ==
  ASSUME NEW path \in Seq(STRING), NEW n \in 1 .. Cardinality(Kept(path))
  PROVE  At(path, n) \in Kept(path) /\ Rank(path, At(path, n)) = n
<1>1. \E i \in Kept(path) : Rank(path, i) = n
  BY RankIsPlace
<1> QED
  BY <1>1 DEF At

LEMMA NonEmptyIsSeq ==
  ASSUME NEW path \in Seq(STRING)
  PROVE  /\ NonEmpty(path) \in Seq(STRING)
         /\ Len(NonEmpty(path)) = Cardinality(Kept(path))
<1>1. \A n \in 1 .. Cardinality(Kept(path)) : path[At(path, n)] \in STRING
  BY AtIsKept, KeptIsFinite
<1>2. NonEmpty(path) \in [1 .. Cardinality(Kept(path)) -> STRING]
  BY <1>1, NonEmptyByRank
<1>3. Cardinality(Kept(path)) \in Nat
  BY KeptIsFinite
<1> QED
  BY <1>2, <1>3, SeqDef, LenProperties

\* For every PATH the result holds the entries that are not empty, all of them, each
\* as often as it occurs and in their order (filter, 132).
THEOREM PathIsFiltered ==
  \A path \in Seq(STRING) :
    \E at \in [1 .. Len(NonEmpty(path)) -> 1 .. Len(path)] :
      /\ \A n \in DOMAIN at : NonEmpty(path)[n] = path[at[n]] /\ path[at[n]] # ""
      /\ \A m, n \in DOMAIN at : m < n => at[m] < at[n]
      /\ \A i \in 1 .. Len(path) : path[i] # "" => \E n \in DOMAIN at : at[n] = i
<1> TAKE path \in Seq(STRING)
<1> DEFINE k  == Cardinality(Kept(path))
           at == [n \in 1 .. k |-> At(path, n)]
<1>1. Len(NonEmpty(path)) = k
  BY NonEmptyIsSeq
<1>2. \A n \in 1 .. k : at[n] \in Kept(path) /\ Rank(path, at[n]) = n
  BY AtIsKept
<1>3. Kept(path) \subseteq 1 .. Len(path) /\ k \in Nat
  BY KeptIsFinite
<1>4. at \in [1 .. Len(NonEmpty(path)) -> 1 .. Len(path)] /\ DOMAIN at = 1 .. k
  BY <1>1, <1>2, <1>3
<1>5. \A n \in 1 .. k : NonEmpty(path)[n] = path[at[n]] /\ path[at[n]] # ""
  BY <1>2, NonEmptyByRank DEF Kept
<1>6. ASSUME NEW m \in 1 .. k, NEW n \in 1 .. k, m < n PROVE at[m] < at[n]
  <2>1. ~(at[n] < at[m]) /\ at[m] # at[n]
    <3>1. CASE at[n] < at[m]
      <4>1. n < m
        BY <1>2, <3>1, RankIsPlace
      <4> QED
        BY <1>3, <1>6, <4>1
    <3> QED
      BY <1>2, <1>3, <1>6, <3>1
  <2>2. at[m] \in Int /\ at[n] \in Int
    BY <1>2, <1>3
  <2> HIDE DEF at
  <2> QED
    BY <2>1, <2>2
<1>7. ASSUME NEW i \in 1 .. Len(path), path[i] # "" PROVE \E n \in 1 .. k : at[n] = i
  <2>1. i \in Kept(path)
    BY <1>7 DEF Kept
  <2>2. PICK n \in 1 .. k : Rank(path, i) = n
    BY <2>1, RankIsPlace
  <2>3. at[n] \in Kept(path) /\ Rank(path, at[n]) = n
    BY <1>2
  <2>4. ~(at[n] < i) /\ ~(i < at[n])
    BY <1>3, <2>1, <2>2, <2>3, RankIsPlace
  <2>5. at[n] \in Int /\ i \in Int
    BY <1>3, <2>3
  <2> HIDE DEF at
  <2>6. at[n] = i
    BY <2>4, <2>5
  <2> QED
    BY <2>6
<1> QED
  BY <1>4, <1>5, <1>6, <1>7

\* The child's environment is made from the machine and the installation found,
\* which do not change afterwards.
EnvOfInstallation ==
  child # "none" /\ host.tools => childEnv.path = <<vendorRoot>> \o NonEmpty(host.path)

LEMMA StepEnv ==
  ASSUME TypeOK, IInv, EnvOfInstallation, [Next]_vars
  PROVE  EnvOfInstallation'
<1>1. CASE Resolve
  <2>1. child' = "none"
    BY <1>1 DEF Resolve, IInv, Phases, binary
  <2> QED
    BY <2>1 DEF EnvOfInstallation
<1>2. CASE Spawn
  <2>0. CASE child' = "none"
    BY <2>0 DEF EnvOfInstallation
  <2> SUFFICES ASSUME child' # "none" PROVE EnvOfInstallation'
    BY <2>0
  <2>1. childEnv' = ChildEnv(host) /\ host' = host /\ vendorRoot' = vendorRoot
    BY <1>2 DEF Spawn, IInv, Phases, place
  <2>2. host.tools => childEnv'.path = <<vendorRoot>> \o NonEmpty(host.path)
    BY <2>1 DEF ChildEnv, UpdatedPath
  <2> QED
    BY <2>1, <2>2 DEF EnvOfInstallation
<1>3. CASE ~Resolve /\ ~Spawn
  <2>1. host' = host /\ vendorRoot' = vendorRoot /\ childEnv' = childEnv
        /\ (child' # "none" => child # "none")
    BY <1>3
    DEF Next, MaybeStart, InstallHandlers, IntervalFires, ScriptCloses, ChildEnds,
        ChildError, ChildExit, SignalComes, ForwardSignal, LoopEmpties, vars, place, binary
  <2> QED
    BY <2>1 DEF EnvOfInstallation
<1> QED
  BY <1>1, <1>2, <1>3

\* The tools of the binary that was started are what its PATH begins with, whatever
\* PATH the launcher was given (127-135).
THEOREM OwnToolsComeFirst == Spec => []OwnToolsFirst
<1>1. Init => EnvOfInstallation
  BY DEF Init, EnvOfInstallation
<1>2. TypeOK /\ EnvOfInstallation => OwnToolsFirst
  <2> SUFFICES ASSUME TypeOK, EnvOfInstallation, child # "none", host.tools
               PROVE  childEnv.path # <<>> /\ Head(childEnv.path) = vendorRoot
    BY DEF OwnToolsFirst
  <2>1. host.path \in Seq(STRING)
    BY LauncherAssumption DEF TypeOK, Host
  <2>2. NonEmpty(host.path) \in Seq(STRING)
    BY <2>1, NonEmptyIsSeq
  <2>3. childEnv.path = <<vendorRoot>> \o NonEmpty(host.path)
    BY DEF EnvOfInstallation
  <2> DEFINE rest == NonEmpty(host.path)
  <2> HIDE DEF rest
  <2>4. rest \in Seq(STRING) /\ childEnv.path = <<vendorRoot>> \o rest
    BY <2>2, <2>3 DEF rest
  <2> QED
    BY <2>4
<1> QED
  BY <1>1, <1>2, StepEnv, TypeCorrect, Invariant, PTL DEF Spec

\* With its handlers installed, only a signal it does not handle can end the
\* launcher before its child (353-366).
THEOREM OrphansOnlyByFatal == Spec => OrphanOnlyByFatal
<1>1. IInv /\ [Next]_vars =>
        [Looping /\ pc' = "ended" /\ child' = "running"
           => result' \in {Signal(s) : s \in Fatal}]_vars
  <2> SUFFICES ASSUME IInv, Next, Looping, pc' = "ended", child' = "running"
               PROVE  result' \in {Signal(s) : s \in Fatal}
    OBVIOUS
  <2>1. pc \in {"await", "draining"} /\ (pc = "draining" => child = "reaped")
    BY DEF IInv, Phases, Looping
  <2>2. CASE SignalComes
    BY <2>1, <2>2 DEF SignalComes, Caught, Looping, Signals
  <2>3. CASE ~SignalComes
    BY <2>1, <2>3
    DEF Next, Resolve, MaybeStart, Spawn, InstallHandlers, IntervalFires, ScriptCloses,
        ChildEnds, ChildError, ChildExit, ForwardSignal, LoopEmpties, own, binary
  <2> QED
    BY <2>2, <2>3
<1> QED
  BY <1>1, Invariant, PTL DEF Spec, OrphanOnlyByFatal

=============================================================================
