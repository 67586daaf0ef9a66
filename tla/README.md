# A TLA+ model of libmpidynres

libmpidynres simulates MPI Sessions with a changing set of resources. The job
runs on an ordinary MPI communicator: rank 0 is the *scheduler*, every other rank
is a *computing resource* (CR) that runs the simulated application while it is
started and idles otherwise. An application asks the scheduler for process sets
and for *resource changes*: offers to start further CRs or to shut some down.

This directory holds TLA+ modules of the scheduler, its two resource managers,
the client library, the workers, the messages between them and two applications
that grow and shrink, the
configurations that check them with TLC, and theorems about the scheduler, the whole
simulation, its messages and the applications whose proofs TLAPS checks. Paths such as `scheduler.c` are below `src/src/`.

## 1. The system

| component | source | state it keeps | operations |
|---|---|---|---|
| scheduler: state and main loop | `scheduler.c`, `scheduler.h` | `running_crs`, `pending_shutdowns`, `pset_name_map`, `rc_map`, `process_states`, `next_session_id`, `next_rc_tag`, `pending_resource_change` | start the first CRs, pick a request (`MPI_Waitany`), run its handler, shut all down |
| request handlers | `scheduler_handlers.c` | the same | worker done; session create, info, finalize; get psets; pset info, lookup, op, free; scheduling hints; resource change (RC); RC accept |
| data structures | `scheduler_datatypes.*` | ordered sets with a key | find by key, insert if absent, erase |
| managers | `managers/*.c`, `scheduler_mgmt.h` | random_diff: none; inc_dec: `next`, `increasing` | initial process set, answer to an RC request, answer to hints |
| client library | `mpidynres.c` | per process: the `MPI_Session` objects, the offers it was given | the calls of `mpidynres.h` |
| workers | `mpidynres_sim.c` | idle or in the program | wait for a command, run the program, report it done |
| transport | `comm.c`, `comm.h`, the receives of `scheduler.c` | messages in flight, the variables the posted receives write to | serialize, send and receive info objects, names and headers |
| applications | `examples/06_resource_changes.c`, `07_simple_changes.c` | the process set and communicator they work on, the iteration | work, ask for a change, move to the next communicator together |
| state log | `logging.c` | `g_states` | `set_state` |
| Fortran bindings, `3rdparty/ctl`, other examples, tests | | | not modelled |

How they interact: clients and workers send *requests* to rank 0 and receive
*answers* and *idle commands*; the handlers call the manager and share the
scheduler's state with it. A request is answered before the next one is looked
at, so that the scheduler is sequential; what makes the system hard is around it:

* requests of different tags from one process, and of all processes, are handled in
  any order: `MPI_Waitany` picks among twelve posted receives;
* `pset_free` and `RC_accept` are not answered, so their sender has gone on, may
  have exited, or may have been started anew when they are handled;
* an offer can be declined (by doing nothing), accepted late, or accepted while
  other offers are open; between the offer and the accept, processes exit, others
  start, and process sets are freed;
* the same facts are recorded several times: `running_crs` and `process_states`;
  the registry of process sets and each process's back references to it;
  `pending_shutdowns` and the flag in the process state; `rc_map` and the process
  set of the same name; the log. Handlers update them at different places;
* the handlers hold assertions and null dereferences that abort the whole job;
* a request is up to three MPI messages and an answer up to three, sent with buffered,
  unbuffered or synchronous sends; the headers of four kinds of request go to one variable;
* an application moves between communicators while processes start, leave and take
  process sets with them, and every move waits for all members.

What makes each part correct: the redundant records agree after every request;
a process set never changes under its name nor outlives a process in it; an
offer's tag and name stay unique and its process set is the one offered; the
handlers' assertions hold; requests and answers arrive whole and are matched; every call returns
and the simulation ends; nobody in an application is left behind. `PROJECT.json` lists the hazards at their lines.

## 2. The modules

| module | models | notes |
|---|---|---|
| `Scheduler` | `scheduler.c`, `scheduler_handlers.c`, `scheduler_datatypes.c`, `set_state` | one action per handler; the manager is the constants `ManagerState`, `ManagerInit`, `ManagerRC` |
| `SchedulerInvariants` | | the promise the proofs need of a manager, and the inductive invariant `IInv` |
| `SchedulerProofs` | | type correctness, the inductive invariant and what follows from it |
| `SchedulerStepProofs` | | the action properties, the state log, the origin of a started process |
| `SchedulerService` | what the scheduler promises an application | abstract specification: who runs, who is to leave, process sets, offers; no redundant records |
| `SchedulerRefinement` | | the mapping under which `Scheduler` implements it |
| `SchedulerRefinementProofs` | | the proof of that |
| `RandomDiffManager` | `managers/random_diff_manager.c` | the set of all outcomes of its random draws |
| `RandomDiffProofs` | | that this manager is one the theorems apply to |
| `IncDecManager` | `managers/inc_dec_manager.c` | its counter |
| `Simulation` | `mpidynres.c`, `mpidynres_sim.c`, the loop of `scheduler.c` | workers, calls, messages, and `S == INSTANCE Scheduler` |
| `SimulationInvariants` | | the places a process can be in with its requests and messages, the offers of a synchronised application, and what both inductions assume of the constants |
| `SimulationProofs` | | types, places and what follows from them; that the simulation implements `Scheduler`; that a synchronised application makes the scheduler abort for a hint only |
| `ExampleApplication` | `examples/06_*.c`, `examples/07_*.c`, `MPI_Comm_create_from_group` | what the simulated program of each process does, on top of `Simulation` |
| `ExampleInvariants` | | what each process asks and holds at its place in the program, and how far all of them have come together: the inductive invariant `ExampleInv` |
| `ExampleProofs` | | each step keeps `ExampleInv`; what follows from it |
| `Messaging` | what library and handlers expect of the messages | abstract specification |
| `Transport` | `comm.c`, the sends and receives of `mpidynres.c` and `scheduler_handlers.c`, the posted receives of `scheduler.c` | one MPI message at a time; implements `Messaging` |
| `TransportInvariants` | | which parts of which requests and answers are underway: the inductive invariant `TransportInv` |
| `TransportProofs` | | that an info object survives its serialization; what the operators on parts, receives and channels do |
| `TransportStepProofs` | | each step keeps `TransportInv`; that nothing is left, and that `Transport` implements `Messaging` |
| `MCScheduler`, `MCIncDec`, `MCSimulation`, `MCExample`, `MCTransport` | | values for the constants |

### Scheduler

The variables are the fields of `struct MPIDYNRES_scheduler`, with the keyed sets
as functions: `pset_name_map[name]` is the set of members, `rc_map[tag]` the
offer, `process_states[c]` the entry of rank c (`active = FALSE` when there is
none). Three variables are not in that struct: `cr_state` is the log's `g_states`,
`next_op` numbers the random names drawn, `sent` holds the messages the last
handler sent. `phase` and `fault` say whether and where the program ended.

`Init` is the state after `MPIDYNRES_start_first_crs`. Every action is a whole
handler. Where a handler can abort, a disjunct sets `fault` and the system stops:
nothing that rank 0 would do afterwards exists, since the abort ends the MPI job.
`Checked(src)` lets requests in from processes that do not run, for the handlers
that test for it (or should); `Anyone` are the requests nobody waits for.

Names are records of a kind and a number, since the code only compares them,
and tests for `mpi://SELF` and for reserved prefixes. A name proposed by a user
is described by where `strstr` finds each reserved prefix in it.
`MPIDYNRES_gen_random_uri` is modelled by a fresh name: the 15 random characters
are taken not to collide (the code's own TODO, `scheduler.c:493`). Contents of info objects,
logging to files and memory management are left out. For a rank outside the
communicator (only inc_dec names one) `set_state` would write outside of `g_states` if the state
log is on; the model follows the program with the log off there.

### Managers

`RandomDiffManager` allows every set the normal deviate and the permutation can
select: any non-empty set of free CRs, any non-empty proper subset of the running
ones, or nothing. `IncDecManager` has the counter of the code, `MaxRank` bounds it.

### Simulation

`Simulation` adds, for each CR: `pc` (in the program, or blocked in `MPI_Recv`
for which tag), `requests` (sent and not handled), `inbox` (sent to it and not
received), `offered` (tags of `RC_get` it has not used) and `sessions`; `calls`
bounds the library calls. `Handle` is one turn of the loop: any request that is
the first of its tag and source may be next, as MPI only orders messages of equal
tag and source. The parts of a request (header, name, info) are one message,
because the handler receives the others first. `MPI_Send` is taken to be buffered, as it is
for such short messages; the blocking `MPI_Ssend` of three calls changes nothing, since their
sender then waits for an answer (or idles) anyway. The session argument is left
out: every handler ignores it, so that a call with any session is allowed.

`Synchronised` chooses between an application that asks for the next change only
when the last has taken effect and no one else holds an offer, and one that does not.

`TellSessions` says whether session ids are told apart. The calls ignore them, so that
`ExampleApplication` does not, which keeps its states few.

### SchedulerService

The service has the state an application can observe: `running`, `leaving`, the `origin` of
each running process, `psets`, `offers`, and two counters from which fresh tags and ids
come. A question is answered about that state and changes nothing; an exit takes
exactly the sets of the process; an offer names only CRs that do not run (ADD) or that do
(SUB), and is made only while nobody is asked to leave; an accept starts exactly those offered,
each with the offer's tag as its origin. The job may abort at any step (`End`): when it does is
not the service's promise, but `FaultFree`'s. The refinement mapping reads `leaving` from
`pending_shutdowns` and `origin` from the process states; that the *other* copies (back
references, pending flags, sizes) never leak a different answer is what the refinement shows.

### Transport and Messaging

`Simulation` takes a request for one message. `Transport` is why it may: it has each
`MPI_Send`, `MPI_Ssend` and `MPI_Recv` of the calls and of the handlers as a step, the receives that
rank 0 posts for the headers (`Match`, when one completes; `Waitany`, when the loop gets to it;
`Repost`), the variable each writes to, and the serialization of info objects as words and
characters. An `MPI_Send` may return at once or wait for its receive: `rendezvous` is chosen once
in `Init`. `Messaging` is what is left when all that is hidden: a request arrives once, whole, before later
ones of its kind from the same client, and the caller gets what was answered to it. Left
out are the done message, which is one int, and hints, which abort.

### ExampleApplication

The simulated program of each process, with its variables (the process set it works on, its
communicator, the iteration) and the call it is at. A broadcast reaches the others without waiting
for them, a barrier and the creation of a communicator need all members at once. The three
broadcasts of one change are one. The info object an offer is accepted with is kept by the offer's tag
(`accept_info`), as `origin_rc_info` of the started processes. Rank 0 of a communicator is its smallest
CR, since the lookup answers in ascending order.

The accept is the one request of these programs that nobody waits for (`mpidynres.c:651`), and rank 0 may
take any request that is the first of its tag (`Serve`, like `Handle` of `Simulation`). So the lookup made
right after the accept (`06_resource_changes.c:139`-`144`, `07_simple_changes.c:112`-`114`), the finalize
and the done message of a root that leaves in 07, and the next request for a change may all be handled
before it. The last of these is the case that does harm. The history variable `overtaken` records it; no
step depends on it.

The definitions that start with `Mut` are wrong variants of the definition that
follows them; no specification uses them. Each breaks a property, which shows
that the property depends on that part of the code.

## 3. The runs

Passing:

| run | configuration | what it shows |
|---|---|---|
| scheduler_changes | `SchedulerChanges.cfg`, 3 CRs, 2 offers | all records agree over offers, declines, late accepts, exits and restarts; a process set is stable; one shutdown at a time; a started process can trust its origin tag; every handler does one step of `SchedulerService` |
| inc_dec_changes | `IncDecChanges.cfg`, 3 CRs | what remains true with a manager that breaks the promise |
| sim_changes | `SimChanges.cfg`, 3 CRs, 4 calls | scheduler and workers agree on who runs; every process is in one of the places of the induction (`SimInv`), offers are made and accepted in turn (`OffersInTurn`); a synchronised application causes no abort; the composition implements `Scheduler!Spec`; every call returns and the simulation ends |
| sim_psets | `SimPsets.cfg`, 2 CRs, 3 calls of all kinds, a proposed name | queries, set operations and frees that race each other are answered, one answer for each; what `get_psets` tells stays true; session ids are not shared; only hints abort |
| example_changes | `Example.cfg`, 3 CRs, 2 offers, 2 iterations of 07 | the two applications, with their requests handled in any order: they abort the job only if an accept is overtaken by the next request for a change; until then one process at a time holds an offer, nobody leaves unasked, all that are asked do, members agree on who they are, and in 06 the work goes on for ever; the inductive invariant `ExampleInv` |
| transport | `Transport.cfg`, 2 clients, 2 calls of any kind | messages of several parts are put together right, in both modes of `MPI_Send`; the inductive invariant; nothing is left over; every call returns |

Violated, each one property that a comment or an assertion of the repository
states; these are the findings of `PROJECT.json`:

| run | what happens |
|---|---|
| inc_dec_start | inc_dec offers rank `num_processes + 1` when it did not start all CRs, and an accept starts it (`inc_dec_manager.c:117`) |
| sim_race | two open offers: the first accept clears the one pending flag, the second fails the assertion (`scheduler_handlers.c:824`). The examples can meet it too, see `OvertakenAborts` in section 4 |
| sim_self | the lookup of `mpi://SELF` sends one message of two, the caller blocks for ever (`scheduler_handlers.c:380`) |
| sim_pset_free | a single `pset_free` deletes a process set all members still use (`scheduler_handlers.c:341`, against `mpidynres.h:80`). So does the exit of one member, which `scheduler_handlers.c:53`-`54` documents |
| sim_proposal | a plain proposed name counts as reserved (`scheduler.c:475`) |
| example_07 | a process added by a change is told the iteration before it is incremented (`07_simple_changes.c:93`, `176`): it stays one behind, and waits in its last barrier for those that have left |

The model shows other abnormal ends, as values of `fault` that are reachable in passing runs:
any hint aborts rank 0 (`free_null_info`); inc_dec proposes to shut down a CR
that does not run (`sub_no_state`); an offer that names a CR of an older
open offer can start it twice (`start_running`), if the application asks once more between the two accepts,
which sets the pending flag again. No run states the last one for applications that do not
coordinate their changes; for the others `FaultFree` and `OvertakenAborts` exclude it.

### Bounds

* CRs: two suffice for races between two processes; three let one process hold an
  offer while a second exits and the third starts, and give process sets that are
  neither singletons nor everything.
* `MaxRcTag`: an offer uses two tags, 3 allows two offers, 1 a single one. Two are
  enough for a stale offer beside a newer one, and for a restart by the newer one.
* `MaxOps`: 2 lets an operation take the result of another and propose a taken name.
* `MaxCalls`: 4 is RC_get and RC_accept twice; 3 is one change with one racing call.
* `MaxIter` (1000 in 07): 2 has a round before and one after a change; example_07 needs 3.
* Transport: two clients and two calls let any two requests meet, of one client (a request that is not
  answered followed by another) or of two; names have one or two characters, info objects none to two pairs
  with values down to the empty one.
* `MaxSessions`, `MaxRank`: large enough never to stop the runs before the others
  do (in scheduler runs sessions are left out with 0: they touch no other state).

### Fairness

`FairSpec` of `Simulation` assumes weak fairness of the scheduler's step (`Handle \/ Shutdown`: rank
0 polls as long as it runs) and of each worker's receives and exit (it is an MPI process of its
own). The exit's fairness says that the simulated program returns when it has made its
finitely many calls. There is no fairness between requests: none is needed,
since each process sends finitely many.

`FairSpec` of `Transport` assumes that rank 0 and every client in a call go on, and that MPI
delivers. `FairExample` is stronger: it is fair to the requests of each process (`Serve(c)`), since an
application that works for ever could otherwise keep rank 0 from one process. Each
round of work sleeps 0.1 to 2 seconds in the code, in which rank 0 gets through its twelve receives.
Which of the requests of a process is taken remains open, as `MPI_Waitany` leaves it (`scheduler.c:188`).
No timing is assumed, not even that the sleep keeps the next request for a change behind the accept
before it: an abort ends the claims of the liveness properties of that run.

Deadlock is checked in all runs but sim_self, where the blocked caller is the
point, and those of the examples, where 07 really stops (example_07); the regular ends of the program are stuttering actions (`Terminated`, `Ended`).

## 4. What the properties mean

Of the scheduler: `RunningHaveState`, `BackrefsExact`, `PendingShutdownsAgree`, `OffersAgree`,
`LogAgrees` compare redundant records. `UnstartedMembersOffered` and `PsetsStable` say
that no process set outlives one of its processes. `OriginsAgree` says that the
tag in the session info of a dynamically started process identifies the change that started it
and, through its process set, its companions. `OneShutdownAtATime` says
that no change is offered beside a pending shutdown. `NoCorruption` covers the three assertions that
no request may reach. `ImplementsService` is the refinement of
`SchedulerService`: each handler is one abstract step or ends the job.

Of the simulation: `RunningAgree` compares what the scheduler takes for running with what the workers
do and what is underway between them; `AnswerAwaited` says that answers are neither lost nor
mixed up; `SimInv` lists every place a process can be in. `FaultFree` and `OnlyHintsAbort` say which aborts
an application that coordinates its changes meets, and `OffersInTurn` why. `SessionsDistinct` and
`PsetsTold` are about what processes are told while others exit, free and create. `ImplementsScheduler` says that the
composition is a `Scheduler`, whose requests come from running processes; `CallsReturn` and
`Termination` are its liveness.

Of the applications: `OvertakenAborts` (the only abort they meet is the assertion at the head of the accept's
handler, and only after an accept was overtaken by a request for a change. That is the accept of a SUB: after that of
an ADD the processes wait for those it starts before anyone asks again. It does happen: with `AcceptAssertion` as
the invariant of `Example.cfg` TLC shows how), `GroupFound` (a lookup of the process set the application moves to finds it),
`OneOffer` (at most one process holds an offer it may accept, although that process may be told to leave),
`OnlyAskedLeave` and `AskedLeave` (exactly those that are asked to leave do, the second in the
end), `CommsAgree` (the members of a communicator agree on who they are), `ExampleInv` (the stages of
a change, see section 5), `WorkGoesOn`. `AskedLeave` and `WorkGoesOn` say what happens unless the job
aborts. Of the messages: `ImplementsMessaging`, `NothingLeft` (no part of a request or an answer is left
when nobody is in a call), `TransportInv` (every part is behind those sent before it, in the
hands of whom it is for, or still to be sent) and `EveryCallReturns`.

## 5. Theorems

These hold for any number of CRs, all bounds and any manager that keeps its promise (`TypeCorrect`
for any manager at all). About the scheduler alone, whatever is requested:

* `TypeCorrect`: `Spec => []TypeOK`;
* `Invariance`: `Spec => [](TypeOK /\ IInv)`;
* its consequences `BackrefsAlwaysExact`, `NoExitedMember`, `AssertionsHold`,
  `ChangesAgree`, `RecordsAgree`, `ShutdownsAgree`, which name properties that the runs check;
* in `SchedulerStepProofs`, `RegistryStable` (`Spec => PsetsStable`), `ShutdownsInTurn`
  (`Spec => OneShutdownAtATime`), `LogTells` (`Spec => []LogAgrees`) and `OriginsTold`
  (`Spec => []OriginsAgree`);
* in `SchedulerRefinementProofs`, `ServiceImplemented` (`Spec => ImplementsService`).

About the whole simulation, for any application that makes any calls:

* `SimInvariance`: `Spec => [](SP!TypeOK /\ SP!IInv /\ SimInv)`, with the scheduler's types and
  invariant (`SP == INSTANCE SchedulerProofs`);
* its consequences `TypesCorrect`, `WorkersAgree`, `AnswersAwaited` (unless `mpi://SELF` is looked
  up, see sim_self), `PsetsToldRight`, and `SchedulerImplemented` (`Spec => S!Spec`);
* `SessionIdsDistinct` (the calls ignore ids, so it is about what would happen if they did not);
* for a `Synchronised` application, `OffersTurnInvariance`, `HintsAbort` and, if it gives no
  hints, `NothingAborts` (`Spec => []FaultFree`).

About the applications 06 and 07, which coordinate their changes by themselves, in any order of service,
in `ExampleProofs`:

* `ExampleInvariance`: `ExampleSpec => [](SP!TypeOK /\ SP!IInv /\ SimInv /\ ExampleInv)`;
* with it `OnlyOvertakenAborts` (`[]OvertakenAborts`), `GroupsFound` (`[]GroupFound`), `OffersOne`
  (`[]OneOffer`), `AskedLeaveOnly` (`[]OnlyAskedLeave`) and `CommunicatorsAgree` (`[]CommsAgree`).

About the messages, for any clients, names and info objects of any length, and both modes of
`MPI_Send`:

* in `TransportProofs`, `InfoArrives`: `Deserialize(Serialize(info)) = info`;
* in `TransportStepProofs`, `TransportInvariance` (`Spec => []TransportInv`), `NothingIsLeft`
  (`Spec => []NothingLeft`) and `MessagingImplemented` (`Spec => ImplementsMessaging`).

Assumptions: the named `ASSUME`s of `Scheduler` (finitely many ranks, CRs among
them, the types of the manager's outcomes) and `ManagerPromise` of `SchedulerInvariants`: a manager
starts only CRs that do not run and shuts down only CRs that do.
`random_diff` keeps it for any number of processes (`RandomDiffKeepsPromise` in `RandomDiffProofs`;
TLC evaluates the assumption itself in the runs of `MCScheduler` and `MCSimulation`), `inc_dec` does
not. `SimulationInvariants` names the same assumptions for the simulation's own constants, since those of an
instantiated module have to be shown again; `Calls`, `MaxCalls` and `Synchronised` have theirs in `Simulation`. `Transport` assumes what its
calls may pass: strings without the character 0, at most one info object, nothing where a call has no
parameter; and that clients are not rank 0.

The argument: none of the properties is inductive alone. An exit frees the sets in
the back references of one process, so that no set keeps an exited member only if
back references are exact; that a start finds the right sets, and
that its members do not run, needs that unstarted members belong to an open offer; that a new
back reference is not dropped as a duplicate needs that new names are fresh (`NamesFresh`);
and that a shutdown finds a process state needs that those that run have one, and the promise. `IInv`
is the conjunction; the proof has one lemma per handler and takes the
operators on the registry (`AddBackrefs`, `DropBackrefs`, `Started`) apart first.

The action properties follow from `IInv` once `StepCases` has sorted the steps by what they
change: only an exit, a free, a new set, an offer and an accept touch the registry, the
running CRs or the offers. An exit leaves no set with the exited member because the back references
are exact; pending shutdowns name running processes only, so that an accept can not
withdraw one. `LogAgrees` and `OriginsAgree` are inductive beside `IInv`: an accepted
change finds its process set unchanged (`OffersAgree`), its tag is not in use as an origin
already, and no later name or tag equals an earlier one.

The refinement needs little more: each handler, under `IInv`, does the abstract step of the same
request. Back references are exact, so that an exit takes away exactly the sets the process is in
and `get_psets` answers what the registry says; pending flags and `pending_shutdowns`
agree, so that a session info tells what the service knows; and a fresh name is one the service
may choose.

For the simulation the scheduler's invariant is not enough, because a handler is only as right as
the requests it gets. `SimInv` is a list of places: at rest, about to start, in the program, asking,
answered (with one message, or the two of a lookup), leaving, quitting. Each fixes `pc`, the inbox,
whether the scheduler takes the process for running, and which requests are underway; requests
nobody waits for may be there in all of them. The proof has one lemma per kind of step
(`SendPlace`, `TakePlace`, `HandlePlace`, `ShutdownPlace`) and takes from the handlers only
what they send and to whom (`Replied`, `DoneEffect`, `UnwaitedEffect`). A start command finds its
worker idle because the scheduler starts only CRs that do not run, and those are at rest; that is
where the promise of the manager and `RunningHaveState` come in. That every step is one of
`Scheduler!Next` then follows, and with it `SP!IInv` holds. `OffersInTurn` adds who may change
the offers: at most one process asks, holds or has just accepted one, so that nothing clears
the pending flag or starts an offered CR in between.

An application needs more than `SimInv`, because what one process may do rests on where all the others
are in their program. `ExampleInv` says it in four layers. `InStep` is about one process: its
requests belong to its place, an offer it holds is used only at the places after the answer, and the
accept of an ADD is underway only while the process looks up the new process set or waits in the creation of its communicator.
Nothing is said about where an accept stands among the requests of its sender, since nothing is known; the
accept of a SUB has no effect that anyone waits for, and may be handled at any later time, or be lost when
the simulation ends. `OneHolder` counts: whoever holds an offer or has the accept of an ADD underway is
the only one, with that offer only. `Together` is about all of them: there is a set `G` of processes that work
(`Working`), whose root asks for a change (`Searching`), is told of one that leads to `J` (`Telling`), makes the
process set `J` (`Naming`), and then all of `G` and `J` move from the one to the other (`Moving`).
In each stage every process is listed: in `G` or not, in `J` or not, the root, having learned of the
change or not yet. The stages overlap in the code: while those that stay already work
on `J`, those that leave may not have looked at their process sets yet, one of them the old root
with an offer it never accepts. That is why `Around` allows leavers beside `Working` and `Searching`;
no harm comes of their offer, because `pending_shutdowns` names them until they exit, and
until then the next root is refused. A change that adds may be looked up before it is accepted: `Moving` ties
the processes to be started to the accept still underway (`Resting` while someone holds the offer, `Joins`
once none does), and the creation of the communicator waits for them. An added process
finds its place by the tag of its origin, so `accept_info` has to name `J` for it, and the first
processes by `mpi://WORLD`, which is right as long as all of them run (`WorldRuns`). A process is
sure to find the process set it looks up because it is a member, does not exit before it has found it,
and nobody else of `J` exits meanwhile. These three layers, `AppInv`, hold as long as the job has not aborted.
The fourth, `AcceptOrder`, is about when it does: a change is accepted once, by whom it was offered to
(`AcceptsOnce`), and as long as no accept was overtaken by a request for a change, one change at a time is
told, held or accepted, and it is pending (`InTime`). So the assertion at `scheduler_handlers.c:824` can
fail only after that. A state in which it has failed keeps what the last one before it said of the applications
(`Aborted` in `ExampleProofs`), and nothing follows it. There is one lemma for each call and answer, in each
stage it is possible in; the steps of the scheduler come by `SimInv` and the lemmas of `SimulationProofs`.

For the messages, `NothingLeft` and the refinement say nothing about what is on its way in the middle of a
call, and that is where parts could be mixed up. `TransportInv` says it: the messages from a client to rank 0 are
the parts of its requests that were sent and not received, in the order of the requests
(`UnderwayOf`, with the part each message is as a function `part`); how many of a request were received
follows from its posted receive and the handler (`Taken`), how many were sent from what the client has left to
do (`Sent`). Hence the first message with the tag a receive asks for is the next part of the first
request of that kind, whatever is between: parts of one kind carry tags that no other kind has, and a second
request of the kind comes behind. `HeadersReceived` says that the variable a header was received into still
holds it when its handler starts: it holds for the variables that one receive writes alone
(`OwnBuffer`), and the four kinds that share one have headers nobody reads. `HandlerInv` and `ClientInv` say
how far handler and call have come, up to what they have received of which request or answer
(`Receiving`, `HasReceived`). Every step is one lemma of `TransportStepProofs`. A receive yields the whole
part because of `InfoArrives` and its like for names and ids. The refinement then takes the history variables,
which are those of `Messaging`: a step of the library or a handler that completes a call or a
request is an abstract step, every other one stutters.

`InfoArrives` is an induction over the strings of an info object. The induction theorems of the library take a
predicate, which the installed provers cannot instantiate; `SetInduction` states induction for a set of
numbers instead, and follows from the least element of its complement (`NatLessThanWellFounded`, `WFMin`). The
serialized strings are then described by where each begins, and `StringAt` finds the end of
each, since no string holds the character 0.

Only model-checked: all liveness, that is the properties that hold under fairness, which is out of the
prover's reach: `EveryCallReturns`, `CallsReturn`, `Termination`, `AskedLeave`, `WorkGoesOn`; and
what remains true of the scheduler under `inc_dec`, which breaks the promise of the theorems
(inc_dec_changes).

## 6. Not modelled

* The Fortran bindings, which convert arguments and call the C functions one to one.
* `3rdparty/ctl`: its sets and maps are mathematical ones here.
* `MPIDYNRES_Info_create_strings`, which fills an info object of the caller; the printing of the log
  and debug output; `free_all_mpi_datatypes` and the freeing of memory.
* Examples 03 to 05 and the tests: they make calls in a fixed order without resource changes;
  sim_psets makes such calls in any order.
* In `Transport`, the done message and the idle commands (one int each, in `Simulation` as whole messages) and
  hints, which end the job.
* Failures of MPI calls (the code aborts on all of them); nothing is persisted or restarted after a crash, and
  MPI neither loses nor duplicates messages, so that no such fault is modelled.
* An accept that reaches rank 0 after the last process has reported its end is never received. The model has
  this step (`Shutdown` leaves `requests` as they are), but no property speaks about it: nobody is left
  who would wait for it.
* The overflow of tags and session ids after 2^31 steps, colliding random names
  (`scheduler.c:493`), and `manager_initial_number_random` with a single CR under inc_dec (a
  division by zero before the loop, `inc_dec_manager.c:101`).

## 7. Plan

Done: the scheduler, managers, the whole simulation, two applications, the transport, and their runs;
the abstract specifications `SchedulerService` and `Messaging`; the inductive invariants of the scheduler,
of the simulation, of the transport and of the applications; the refinements from `Simulation` to `Scheduler`, from `Scheduler` to
`SchedulerService` and from `Transport` to `Messaging`; and the theorems of section 5.

Left:

1. The part of `IInv` that holds under any manager as an invariant of its own, so that theorems
   reach `inc_dec`.
2. Applications with several changes open at a time, once the code accepts them.
