------------------------------ MODULE Launcher ------------------------------
(***************************************************************************)
(* The launcher of the command line tool (src/tmp/codex-cli-patch/        *)
(* codex.js): it finds the native binary, starts it, forwards signals to  *)
(* it, mirrors its end, and meanwhile shows usage in the terminal's title  *)
(* with a script it starts every five seconds.                            *)
(*                                                                         *)
(* The script's top level runs to its await without returning to the event *)
(* loop, so a callback can only run in the phases "await" and "draining".  *)
(* A signal of the operating system can come between any two steps; until  *)
(* the launcher has handlers, it ends it.  Signals are those of POSIX.    *)
(***************************************************************************)
EXTENDS Integers, Sequences, FiniteSets

CONSTANTS
  Hosts,     \* the machines and environments it is started in
  Handled,   \* the signals it handles: SIGINT, SIGTERM, SIGHUP
  Fatal,     \* signals that it does not handle and that end a process
  Codes      \* exit codes

Signals == Handled \cup Fatal
Code(c)   == [type |-> "code", exitCode |-> c]
Signal(s) == [type |-> "signal", signal |-> s]
NotEnded  == [type |-> "none"]
Ends      == {Code(c) : c \in Codes} \cup {Signal(s) : s \in Signals}

Host == [platform : STRING, arch : STRING,
         packaged : BOOLEAN,           \* the package of the platform resolves
         vendored : BOOLEAN,           \* a local copy of the binary exists
         tools    : BOOLEAN,           \* the binary comes with a path directory
         agent    : {"bun", "npm", ""},\* npm_config_user_agent
         bunPath  : BOOLEAN,           \* npm_execpath or __dirname is of bun
         path     : Seq(STRING),       \* PATH, split
         markers  : SUBSET {"bun", "npm"},   \* CODEX_MANAGED_BY_* inherited
         args     : Seq({"help", "server", "other"}),
         tty      : BOOLEAN,
         disabled : BOOLEAN]           \* CODEX_USAGE_MONITOR_DISABLE

ASSUME LauncherAssumption ==
  /\ Hosts \subseteq Host
  /\ Handled \cap Fatal = {}
  /\ Codes \subseteq Nat /\ {0, 1} \subseteq Codes

VARIABLES
  host,
  pc,         \* where the launcher is
  result,     \* how it ended
  vendorRoot, \* the installation found: "package", "local", or none
  monitor,    \* terminalUsageMonitor: none, or its interval and flags
  scripts,    \* snapshot scripts running for it
  title,      \* the terminal's title: as the shell left it, or set last
  child,      \* the native binary, with "dead" and "failed" while the
              \* event "exit" or "error" waits for its handler
  childEnd,   \* how it ended
  childEnv,   \* PATH and markers it was given
  killed,     \* child.killed: a signal was sent to it
  received,   \* handled signals whose handler has not run
  toChild     \* signals that have reached the child

place  == <<host, vendorRoot>>
own    == <<pc, result>>
usage  == <<monitor, scripts, title>>
binary == <<child, childEnd, childEnv>>
sent   == <<killed, received, toChild>>
vars   == <<place, own, usage, binary, sent>>

Monitor == [created : BOOLEAN, interval : BOOLEAN, disposed : BOOLEAN, inFlight : BOOLEAN]
NoMonitor ==
  [created |-> FALSE, interval |-> FALSE, disposed |-> FALSE, inFlight |-> FALSE]

Pc == {"resolve", "monitor", "spawn", "handlers", "await", "draining", "ended"}

TypeOK ==
  /\ host \in Hosts
  /\ pc \in Pc
  /\ {result, childEnd} \subseteq Ends \cup {NotEnded}
  /\ vendorRoot \in {"", "package", "local"}
  /\ monitor \in Monitor
  /\ scripts \in Nat
  /\ title \in {"shell", "usage", "unavailable", "Codex"}
  /\ child \in {"none", "running", "dead", "failed", "reaped"}
  /\ childEnv.markers \subseteq {"bun", "npm"}   \* its path is a sequence
  /\ killed \in BOOLEAN
  /\ received \subseteq Handled
  /\ toChild \subseteq Signals

Init ==
  /\ host \in Hosts
  /\ pc = "resolve" /\ result = NotEnded
  /\ vendorRoot = ""
  /\ monitor = NoMonitor /\ scripts = 0 /\ title = "shell"
  /\ child = "none" /\ childEnd = NotEnded
  /\ childEnv = [path |-> <<>>, markers |-> {}]
  /\ killed = FALSE /\ received = {} /\ toChild = {}

-----------------------------------------------------------------------------
(* Finding the binary.                                                     *)

\* The supported targets; each stands for its triple and, one to one, its package
PlatformPackage == [arch : {"x64", "arm64"}, os : {"linux", "darwin", "win32"}]

\* The target of a platform and architecture: none when it is not supported
TargetTriple(h) ==
  {t \in PlatformPackage :
      /\ t.arch = h.arch
      /\ t.os = IF h.platform = "android" THEN "linux" ELSE h.platform}

\* The package, or else the local copy if its binary is there
VendorRoot(h) == IF h.packaged THEN "package" ELSE IF h.vendored THEN "local" ELSE ""

PackageManager(h) ==
  IF h.agent = "bun" \/ h.bunPath THEN "bun" ELSE h.agent

\* An error thrown at the top level ends the process with code 1
Resolve ==
  /\ pc = "resolve"
  /\ IF TargetTriple(host) # {} /\ VendorRoot(host) # ""
     THEN /\ vendorRoot' = VendorRoot(host)
          /\ pc' = "monitor"
          /\ UNCHANGED result
     ELSE /\ pc' = "ended"
          /\ result' = Code(1)
          /\ UNCHANGED vendorRoot
  /\ UNCHANGED <<host, usage, binary, sent>>

-----------------------------------------------------------------------------
(* The usage monitor.                                                      *)

ShouldAutoShow(h) ==
  /\ h.tty /\ ~h.disabled
  /\ \A i \in 1 .. Len(h.args) : h.args[i] # "help"
  /\ h.args = <<>> \/ Head(h.args) # "server"

\* A tick finds the monitor idle and its script present, or does nothing.
\* (mutant: does not look whether the last script has answered)
TickImpatient(m) == ~m.disposed
Tick(m) == ~m.disposed /\ ~m.inFlight

\* The script is started, or there is nothing to start
Ticked(m) ==
  \/ /\ Tick(m)
     /\ monitor' = [m EXCEPT !.inFlight = TRUE]
     /\ scripts' = scripts + 1
  \/ monitor' = m /\ UNCHANGED scripts

MaybeStart ==
  /\ pc = "monitor"
  /\ pc' = "spawn"
  /\ \/ /\ ShouldAutoShow(host)
        /\ Ticked([NoMonitor EXCEPT !.created = TRUE, !.interval = TRUE])
     \/ UNCHANGED <<monitor, scripts>>   \* not to be shown, or no script
  /\ UNCHANGED <<place, result, title, binary, sent>>

\* The event loop runs callbacks
Looping == pc \in {"await", "draining"}

IntervalFires ==
  /\ Looping /\ monitor.interval
  /\ Ticked(monitor)
  /\ UNCHANGED <<place, own, title, binary, sent>>

\* What the script's end puts in the title: a snapshot, or that there is none,
\* as it could not start, failed, or printed something else
TitleOf(isSnapshot) == IF isSnapshot THEN "usage" ELSE "unavailable"

ScriptCloses ==
  /\ scripts > 0
  /\ scripts' = scripts - 1
  /\ \/ /\ Looping
        /\ \E isSnapshot \in BOOLEAN : title' = TitleOf(isSnapshot)
        /\ monitor' = [monitor EXCEPT !.inFlight = FALSE]
     \/ /\ pc = "ended"
        /\ UNCHANGED <<title, monitor>>
  /\ UNCHANGED <<place, own, binary, sent>>

\* (mutant: gives the title back and leaves the interval running)
DisposeOnlyTitle ==
  /\ title' = IF monitor.created THEN "Codex" ELSE title
  /\ UNCHANGED monitor
\* (mutant: the title is left as it is)
DisposeKeepsTitle ==
  /\ monitor' = [monitor EXCEPT !.disposed = @ \/ monitor.created, !.interval = FALSE]
  /\ UNCHANGED title
Dispose ==
  IF monitor.created
  THEN /\ monitor' = [monitor EXCEPT !.disposed = TRUE, !.interval = FALSE]
       /\ title' = "Codex"
  ELSE UNCHANGED <<monitor, title>>

-----------------------------------------------------------------------------
(* The native binary.                                                      *)

\* filter(Boolean): the entries that are not empty, in their order (what SelectSeq
\* computes, in a form that can be reasoned about)
NonEmpty(path) ==
  LET kept   == {i \in 1 .. Len(path) : path[i] # ""}
      nth(n) == CHOOSE i \in kept : Cardinality({j \in kept : j <= i}) = n
  IN [n \in 1 .. Cardinality(kept) |-> path[nth(n)]]

\* PATH of the child: its own tools first, empty entries left out
\* (mutant: its tools last)
UpdatedPathAppends(h, tools) == NonEmpty(h.path) \o tools
UpdatedPath(h, tools) == tools \o NonEmpty(h.path)

ChildEnv(h) ==
  [path    |-> UpdatedPath(h, IF h.tools THEN <<vendorRoot>> ELSE <<>>),
   markers |-> h.markers \cup {IF PackageManager(h) = "bun" THEN "bun" ELSE "npm"}]

\* Whether the binary can be started is known after the call, by an event, or
\* the call throws at the top level, for an error that has no event
Spawn ==
  /\ pc = "spawn"
  /\ \/ /\ pc' = "handlers"
        /\ child' \in {"running", "failed"}
        /\ childEnv' = ChildEnv(host)
        /\ UNCHANGED result
     \/ /\ pc' = "ended" /\ result' = Code(1)
        /\ UNCHANGED <<child, childEnv>>
  /\ UNCHANGED <<place, usage, childEnd, sent>>

InstallHandlers ==
  /\ pc = "handlers"
  /\ pc' = "await"
  /\ UNCHANGED <<place, result, usage, binary, sent>>

\* The child ends by itself or by a signal, its own, of others or forwarded
ChildEnds ==
  /\ child = "running"
  /\ child' = "dead"
  /\ childEnd' \in Ends
  /\ UNCHANGED <<place, own, usage, childEnv, sent>>

ChildError ==
  /\ pc = "await" /\ child = "failed"
  /\ Dispose
  /\ pc' = "ended" /\ result' = Code(1)
  /\ UNCHANGED <<place, scripts, binary, sent>>

-----------------------------------------------------------------------------
(* Signals, and the end.                                                   *)

\* The signals for which process.on has registered a handler
\* (mutant: one forgotten)
CaughtExceptHup == IF Looping THEN Handled \ {"SIGHUP"} ELSE {}
Caught == IF Looping THEN Handled ELSE {}

\* A signal is sent to the launcher, or from the terminal to its whole group
SignalComes ==
  \E s \in Signals, toGroup \in BOOLEAN :
     /\ pc # "ended"
     /\ IF s \in Caught
        THEN received' = received \cup {s} /\ UNCHANGED <<pc, result>>
        ELSE pc' = "ended" /\ result' = Signal(s) /\ UNCHANGED received
     /\ toChild' = toChild \cup {x \in {s} : toGroup /\ child = "running"}
     /\ UNCHANGED <<place, usage, binary, killed>>

\* forwardSignal: child.kill succeeds for a process that is running, or dead
\* and not yet waited for
ForwardSignal ==
  \E s \in received :
     /\ Looping
     /\ received' = received \ {s}
     /\ IF ~killed /\ child \in {"running", "dead"}
        THEN /\ killed' = TRUE
             /\ toChild' = toChild \cup {x \in {s} : child = "running"}
        ELSE UNCHANGED <<killed, toChild>>
     /\ UNCHANGED <<place, own, usage, binary>>

\* The end of the child is mirrored: by process.exit with its code, or by its
\* signal sent to the launcher itself, which its own handlers may catch
\* (mutant: the code is not passed on)
MirrorCodeLost(e) ==
  IF e.type = "signal" /\ e.signal \in Caught
  THEN pc' = "draining" /\ received' = received \cup {e.signal} /\ UNCHANGED result
  ELSE /\ pc' = "ended" /\ UNCHANGED received
       /\ result' = IF e.type = "code" THEN Code(0) ELSE e
Mirror(e) ==
  IF e.type = "signal" /\ e.signal \in Caught
  THEN pc' = "draining" /\ received' = received \cup {e.signal} /\ UNCHANGED result
  ELSE pc' = "ended" /\ result' = e /\ UNCHANGED received

ChildExit ==
  /\ pc = "await" /\ child = "dead"
  /\ child' = "reaped"
  /\ Dispose
  /\ Mirror(childEnd)
  /\ UNCHANGED <<place, scripts, childEnd, childEnv, killed, toChild>>

\* The event loop has nothing more to wait for.  Signal handlers do not keep it
LoopEmpties ==
  /\ pc = "draining" /\ scripts = 0 /\ ~monitor.interval
  /\ pc' = "ended" /\ result' = Code(0)
  /\ UNCHANGED <<place, usage, binary, sent>>

-----------------------------------------------------------------------------
Next ==
  \/ Resolve \/ MaybeStart \/ Spawn \/ InstallHandlers
  \/ IntervalFires \/ ScriptCloses
  \/ ChildEnds \/ ChildError \/ ChildExit
  \/ SignalComes \/ ForwardSignal \/ LoopEmpties

Spec == Init /\ [][Next]_vars

\* The launcher goes on.  Nothing is assumed of the child, of signals, of the
\* timer, nor that a script ends.
Fairness ==
  /\ WF_vars(Resolve) /\ WF_vars(MaybeStart) /\ WF_vars(Spawn)
  /\ WF_vars(InstallHandlers) /\ WF_vars(ForwardSignal)
  /\ WF_vars(ChildError) /\ WF_vars(ChildExit) /\ WF_vars(LoopEmpties)

FairSpec == Spec /\ Fairness

-----------------------------------------------------------------------------
(* What holds.                                                             *)

\* At most one snapshot script runs at a time, however slow it is against the
\* interval (tick, 281-294)
OneScriptAtATime ==
  /\ scripts <= 1
  /\ Looping => (monitor.inFlight <=> scripts = 1)

\* No script is started once the child has been seen to end (dispose, 301-307),
\* also by a launcher that goes on to run its event loop
NoScriptAfterExit == [][child = "reaped" => scripts' <= scripts]_vars

\* A launcher that was not itself ended by a signal of another process reports
\* what the child reported: its code, or a signal it can not catch (385-391).
\* For the caught signals see MirrorsEverySignal.
OwnEnd == pc = "ended" /\ child = "reaped"
StatusMirrored ==
  OwnEnd /\ (childEnd.type = "code" \/ childEnd.signal \in Fatal) => result = childEnd

\* Once the handlers are installed, none of the signals the launcher handles
\* ends it and leaves the child running (forwardSignal, 353-366)
OrphanOnlyByFatal ==
  [][Looping /\ pc' = "ended" /\ child' = "running" => result' \in {Signal(s) : s \in Fatal}]_vars

\* The title as the shell left it, or as dispose leaves one that the monitor may
\* have set
GivenBack == title = IF monitor.created THEN "Codex" ELSE "shell"

\* The launcher caught the signal it re-sent, and the script that was running at
\* dispose has answered since: disposed is not read after the await (288)
LateScript ==
  /\ childEnd.type = "signal" /\ childEnd.signal \in Handled
  /\ monitor.created /\ scripts = 0

\* From the exit event of the child on, and after the error event, the title is
\* given back and stays so until the launcher has ended, whatever ends it, save by
\* a late script (dispose, 301-307; 340, 383)
TitleGivenBack ==
  \/ child = "reaped"
  \/ child = "failed" /\ pc = "ended" /\ result.type = "code"
  => GivenBack \/ LateScript

\* The tools that come with the binary that was started come first in its PATH,
\* also when the launcher runs under another launcher's PATH (127-135)
OwnToolsFirst ==
  child # "none" /\ host.tools
    => childEnv.path # <<>> /\ Head(childEnv.path) = vendorRoot

\* When the child has ended the launcher ends, and a script that hangs does not
\* hold it back; a signal that it re-sends and catches makes it wait for one
LauncherEnds ==
  /\ (child = "failed" \/ (child = "dead" /\ childEnd.type = "code")) ~> (pc = "ended")
  /\ (pc = "draining" /\ scripts = 0) ~> (pc = "ended")

\* Comment at 386-387: "Re-emit the same signal so that the parent terminates
\* with the expected semantics (this also sets the correct exit code of 128 + n)."
MirrorsEverySignal ==
  OwnEnd /\ childEnd.type = "signal" /\ childEnd.signal \in Handled
    => result.type = "signal"

=============================================================================
