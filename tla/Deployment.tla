------------------------------ MODULE Deployment ------------------------------
(***************************************************************************)
(* From a directory of binding files to a registry: what a process has     *)
(* loaded from the directory, while the YAML writer of another may be at   *)
(* work in it, it registers (RegistryWriter::write,                        *)
(* output/registry_writer.rs).                                             *)
(*                                                                         *)
(* The registry is apcore's: it refuses an id it has, a module announced   *)
(* as streaming that does not stream, and it may refuse a module for       *)
(* reasons of its own.                                                     *)
(***************************************************************************)
EXTENDS Loading, Targets

CONSTANTS
    RegistryWriters,    \* writers and their calls: [allowed_prefixes, handlers, streams, dry_run,
                        \* verify, verifiers]; allowed_prefixes is a set of prefixes or None,
                        \* handlers and streams as in the two below
    Echo,               \* passthrough_handler
    Handler(_, _),      \* handler_factory: handlers, target -> a handler or None
    StreamHandler(_, _) \* streaming_handler_factory: streams, target -> a handler or None

ASSUME RegistryAssumption ==
    \A w \in RegistryWriters : w.allowed_prefixes # None =>
        \A prefix \in w.allowed_prefixes : prefix \in Seq(STRING)

VARIABLES
    writing,    \* the registry writer of the process and its call, None before there is one
    registry,   \* id -> the [descriptor, runs, streams] registered under it; history: the
                \* target, alias and warnings of the descriptor, which apcore's has not
    reports     \* the results so far

registrarVars == <<writing, registry, reports>>
vars == <<writerVars, tree, loaderVars, looked, registrarVars>>

DeploymentInit ==
    /\ Init /\ LoadingInit
    /\ writing = None /\ registry = <<>> /\ reports = <<>>

------------------------------------------------------------------------------
(* Modules of the registry *)

Streaming(m) == m.annotations # None /\ m.annotations.streaming

\* Mutant of ToModule: the flag is left as the binding has it.
ToModuleAsAnnounced(m) ==
    LET handler == Handler(writing.handlers, m.target) IN
    [descriptor |-> [m EXCEPT !.annotations = [streaming |-> Streaming(m)]],
     runs       |-> IF handler = None THEN Echo ELSE handler,
     streams    |-> IF Streaming(m) THEN StreamHandler(writing.streams, m.target) ELSE None]

\* to_module and make_descriptor: a handler that echoes where the factory has none; and where no
\* stream is to be had, the module is not announced as streaming.
ToModule(m) ==
    LET handler == Handler(writing.handlers, m.target)
        stream  == IF Streaming(m) THEN StreamHandler(writing.streams, m.target) ELSE None
    IN  [descriptor |-> [m EXCEPT !.annotations = [streaming |-> stream # None]],
         runs       |-> IF handler = None THEN Echo ELSE handler,
         streams    |-> stream]

\* The registry's own checks, besides the reasons nobody knows.
Registrable(id, module) ==
    /\ id \notin DOMAIN registry
    /\ Streaming(module.descriptor) => module.streams # None

------------------------------------------------------------------------------
(* Registration *)

Reported(m, verified, why) ==
    reports' = Append(reports, [id |-> m.module_id, verified |-> verified, why |-> why])

\* The built-in check, if asked for, and, whatever it said, the custom verifiers: of no file.
Verified(m) ==
    \E accepted \in RunVerifierChain(writing.verifiers, None, TRUE) :
        Reported(m, (writing.verify => m.module_id \in DOMAIN registry') /\ accepted, "verification")

Register(m, accepted) ==
    \/ /\ ~(accepted /\ Registrable(m.module_id, ToModule(m)))
       /\ Reported(m, FALSE, IF accepted THEN "registration" ELSE "registry")
       /\ UNCHANGED registry
    \/ /\ accepted /\ Registrable(m.module_id, ToModule(m))
       /\ registry' = Put(registry, m.module_id, ToModule(m))
       /\ Verified(m)

\* The builders of the writer, and the arguments of its call.
Construct ==
    /\ load.phase = "loaded"
    /\ writing = None
    /\ writing' \in RegistryWriters
    /\ UNCHANGED <<loaderVars, looked, registry, reports>>

\* One module of RegistryWriter::write's loop.
WriteNext ==
    /\ load.phase = "loaded"
    /\ writing # None
    /\ Len(reports) < Len(modules)
    /\ LET m == modules[Len(reports) + 1]
       IN  \/ /\ writing.dry_run
              /\ Reported(m, TRUE, "dry run")
              /\ UNCHANGED registry
           \/ /\ ~writing.dry_run
              /\ ~TargetAllowed(m.target, writing.allowed_prefixes)
              /\ Reported(m, FALSE, "refused")
              /\ UNCHANGED registry
           \/ /\ ~writing.dry_run
              /\ TargetAllowed(m.target, writing.allowed_prefixes)
              /\ \E accepted \in BOOLEAN : Register(m, accepted)
    /\ UNCHANGED <<writing, loaderVars, looked>>

\* The call is over; there may be another load.
WriteReturns ==
    /\ load.phase = "loaded"
    /\ writing # None
    /\ Len(reports) = Len(modules)
    /\ load' = NotLoading /\ looked' = NotLooked /\ modules' = <<>> /\ reports' = <<>>
    /\ UNCHANGED <<writing, registry, loads>>

Next ==
    \/ (WriterStep \/ Crash) /\ UNCHANGED <<tree, loaderVars, registrarVars>> /\ Watched
    \/ LoaderStep /\ UNCHANGED <<writerVars, tree, registrarVars>>
    \/ (Construct \/ WriteNext \/ WriteReturns) /\ UNCHANGED <<writerVars, tree>>
    \/ PowerLoss /\ UNCHANGED <<tree, loads>>
                 /\ load' = NotLoading /\ looked' = NotLooked /\ modules' = <<>>
                 /\ writing' = None /\ registry' = <<>> /\ reports' = <<>>

Spec == DeploymentInit /\ [][Next]_vars

------------------------------------------------------------------------------
(* Properties *)

\* A result that is reported as verified is of a module that the registry holds as it was
\* loaded, not of one of the same id that was there before; it runs what the factory has for
\* its own target, and is announced as streaming just when it was meant to stream and can.
\* And no module is refused for a stream nobody provides (registry_writer.rs:307-449).
RegistrationsTrue ==
    \A i \in DOMAIN reports :
        LET m == modules[i]
            stream == StreamHandler(writing.streams, m.target)
        IN  /\ reports[i].verified /\ ~writing.dry_run =>
                 /\ m.module_id \in DOMAIN registry
                 /\ LET registered == registry[m.module_id] IN
                    /\ [registered.descriptor EXCEPT !.annotations = m.annotations] = m
                    /\ Streaming(registered.descriptor) <=> (Streaming(m) /\ stream # None)
                    /\ registered.runs \in {Handler(writing.handlers, m.target), Echo}
                    /\ registered.runs = Echo => Handler(writing.handlers, m.target) = None
            /\ reports[i].why = "registration" => m.module_id \in DOMAIN registry

LiesWithin(target, prefixes) ==
    \E p \in prefixes :
        TrimDots(p) # <<>> /\ IsPrefix(Components(TrimDots(p)), Components(ModulePath(target)))

\* What the allow-list keeps out is not registered, and what it lets in is not refused,
\* component by component: "myapp" lets in "myapp.tasks", not "myappx"
\* (registry_writer.rs:243-248).
AllowListHonoured ==
    writing # None /\ writing.allowed_prefixes # None =>
        /\ \A id \in DOMAIN registry :
             LiesWithin(registry[id].descriptor.target, writing.allowed_prefixes)
        /\ \A i \in DOMAIN reports : reports[i].why = "refused" =>
             ~LiesWithin(modules[i].target, writing.allowed_prefixes)
==============================================================================
