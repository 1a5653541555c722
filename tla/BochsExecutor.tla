---------------------------- MODULE BochsExecutor ----------------------------
(***************************************************************************)
(* The executors of one process and the one Bochs machine behind them.     *)
(* The executors share the simulator interface SIM, the flag               *)
(* g_bochsCoreInitialized and the machine: its processor, its memory, the  *)
(* disk it was configured with.  Another component of the process may have *)
(* set the machine up before them (the test fixtures do), and uses it too. *)
(*                                                                         *)
(* An operation of an executor is a step.  Of the processor the model has  *)
(* the instruction pointer, of the memory the place where LoadBinary puts  *)
(* a binary.  What the machine does when it runs is any change of these.   *)
(* The system's own libraries, which Initialize parses and nothing reads,  *)
(* are left out, and so is tracing.                                        *)
(***************************************************************************)

CONSTANTS
    Executors,      \* the objects
    Disks,          \* paths of disk images
    Addresses,      \* values of the instruction pointer
    ResetVector,    \* the one of them a reset gives
    None            \* no disk, nothing loaded

ASSUME ResetVectorAssumption == ResetVector \in Addresses
ASSUME NoneAssumption == None \notin Disks \cup Executors

VARIABLES
    core,       \* g_bochsCoreInitialized
    sim,        \* SIM is not null
    built,      \* whether the machine has its processor and memory
    inserted,   \* the disk it was configured with
    rip,        \* its instruction pointer
    program,    \* whose binary is in its memory
    ready,      \* initialized, of each executor
    image,      \* diskImagePath
    failed,     \* whether an Initialize has returned false
    touched     \* whether an operation has reached the machine before it was built

guest == <<built, inserted, rip, program>>
vars == <<core, sim, guest, ready, image, failed, touched>>

-----------------------------------------------------------------------------
(* The machine.  Each use of it takes it as built. *)

Use(A) == IF built THEN A /\ UNCHANGED <<built, inserted, touched>>
          ELSE touched' = TRUE /\ UNCHANGED guest

\* bx_pc_system.Reset keeps the memory.
Reset == Use(rip' = ResetVector /\ UNCHANGED program)

\* It may stop anywhere; what it runs may overwrite what was loaded, or reset
\* the processor.
Run == Use(rip' \in Addresses /\ program' \in {program, None})

Build(disk) ==
    /\ built' = TRUE /\ inserted' = disk
    /\ rip' = ResetVector /\ program' = None
    /\ UNCHANGED touched

-----------------------------------------------------------------------------
Init ==
    /\ core = FALSE /\ sim = FALSE
    /\ built = FALSE /\ inserted = None /\ rip = ResetVector /\ program = None
    /\ ready = [e \in Executors |-> FALSE]
    /\ image = [e \in Executors |-> None]
    /\ failed = FALSE /\ touched = FALSE

Succeed(e) ==
    /\ core' = TRUE /\ ready' = [ready EXCEPT ![e] = TRUE]
    /\ UNCHANGED <<image, failed>>

\* Mutant: each call gives a machine that has been reset.
InitializeAgainResets(e) ==
    /\ core
    /\ Reset
    /\ Succeed(e)
    /\ UNCHANGED sim

\* The second and later calls in the process.
InitializeAgain(e) ==
    /\ core
    /\ Succeed(e)
    /\ UNCHANGED <<sim, guest, touched>>

\* Mutant: the interface is not looked at.
InitializeReuseBuilds(e) ==
    /\ ~ core /\ sim
    /\ Build(image[e])
    /\ Succeed(e)
    /\ UNCHANGED sim

\* Mutant: the flag is not set.
InitializeReuseUnmarked(e) ==
    /\ ~ core /\ sim
    /\ Reset
    /\ ready' = [ready EXCEPT ![e] = TRUE]
    /\ UNCHANGED <<core, sim, image, failed>>

\* SIM exists: what set it up is taken to have built the machine.
InitializeReuse(e) ==
    /\ ~ core /\ sim
    /\ Reset
    /\ Succeed(e)
    /\ UNCHANGED sim

\* The interface comes first, the machine last; in between, the configuration
\* may not be readable, or the display library not load.
InitializeFirst(e) ==
    /\ ~ core /\ ~ sim
    /\ sim' = TRUE
    /\ \/ Build(image[e]) /\ Succeed(e)
       \/ failed' = TRUE /\ UNCHANGED <<core, guest, ready, image, touched>>

Initialize(e) == InitializeAgain(e) \/ InitializeReuse(e) \/ InitializeFirst(e)

Shutdown(e) ==
    /\ ready' = [ready EXCEPT ![e] = FALSE]
    /\ UNCHANGED <<core, sim, guest, image, failed, touched>>

\* The executor is destroyed and another one constructed.
Renew(e) ==
    /\ ready' = [ready EXCEPT ![e] = FALSE]
    /\ image' = [image EXCEPT ![e] = None]
    /\ UNCHANGED <<core, sim, guest, failed, touched>>

SetDiskImage(e, disk) ==
    /\ image' = [image EXCEPT ![e] = disk]
    /\ UNCHANGED <<core, sim, guest, ready, failed, touched>>

\* Mutant: the flag is not checked.
LoadBinaryUnchecked(e) ==
    /\ Use(program' = e /\ UNCHANGED rip)
    /\ UNCHANGED <<core, sim, ready, image, failed>>

\* These look at the flag of the process, not at that of the executor.
LoadBinary(e) ==
    /\ core
    /\ Use(program' = e /\ UNCHANGED rip)
    /\ UNCHANGED <<core, sim, ready, image, failed>>

SetRegister(e, a) ==
    /\ core
    /\ Use(rip' = a /\ UNCHANGED program)
    /\ UNCHANGED <<core, sim, ready, image, failed>>

GetRegister(e) ==
    /\ core
    /\ Use(UNCHANGED <<rip, program>>)
    /\ UNCHANGED <<core, sim, ready, image, failed>>

\* Also with a place to start, or without an instruction to execute.
Execute(e) ==
    /\ ready[e] /\ core
    /\ Run
    /\ UNCHANGED <<core, sim, ready, image, failed>>

BootFromDisk(e) ==
    /\ ready[e] /\ core /\ image[e] # None
    /\ Run
    /\ UNCHANGED <<core, sim, ready, image, failed>>

\* Another component of the process, which builds the machine if there is no
\* interface and uses what it has built.
BuildElsewhere ==
    /\ ~ sim /\ sim' = TRUE
    /\ Build(None)
    /\ UNCHANGED <<core, ready, image, failed>>

UseElsewhere ==
    /\ built
    /\ Run
    /\ UNCHANGED <<core, sim, ready, image, failed>>

Operation(e) ==
    \/ Initialize(e)
    \/ Shutdown(e)
    \/ Renew(e)
    \/ \E disk \in Disks : SetDiskImage(e, disk)
    \/ LoadBinary(e)
    \/ \E a \in Addresses : SetRegister(e, a)
    \/ GetRegister(e)
    \/ Execute(e)
    \/ BootFromDisk(e)

Next ==
    \/ \E e \in Executors : Operation(e)
    \/ BuildElsewhere
    \/ UseElsewhere

Spec == Init /\ [][Next]_vars
-----------------------------------------------------------------------------
(* Properties. *)

\* The type invariant.
TypeOK ==
    /\ core \in BOOLEAN /\ sim \in BOOLEAN /\ built \in BOOLEAN
    /\ inserted \in Disks \cup {None}
    /\ rip \in Addresses
    /\ program \in Executors \cup {None}
    /\ ready \in [Executors -> BOOLEAN]
    /\ image \in [Executors -> Disks \cup {None}]
    /\ failed \in BOOLEAN /\ touched \in BOOLEAN

\* What the flags mean.  An executor that is ready has a core, so that the
\* second check of Execute and BootFromDisk never fails; and a core, or an
\* interface, has a machine unless an initialisation has failed half way.
CoreInductive ==
    /\ TypeOK
    /\ \A e \in Executors : ready[e] => core
    /\ core => sim
    /\ built => sim
    /\ sim /\ ~ failed => built
    /\ touched => failed

\* No operation of any executor, initialised or not, and in any order, reaches
\* the machine before it is built, as long as no initialisation has failed.
\* After one that has, the next Initialize does: see InitializeReuse.
TouchedOnlyAfterFailure == touched => failed

\* The machine is built once in the process, whoever comes first, and keeps
\* the disk it was built with.
BuiltOnce == [][built => UNCHANGED <<built, inserted>>]_vars

\* An executor that is initialised while another one is ready leaves the
\* machine as it is: neither is the processor reset under the other one nor
\* its program lost.
GuestSurvivesInitialize ==
    [][\A e \in Executors : Initialize(e) /\ (\E f \in Executors : ready[f])
          => UNCHANGED guest]_vars
=============================================================================
