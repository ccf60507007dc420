# A TLA+ model of the distribution-network FDIR server

The repository is a server for fault detection, isolation and restoration
(FDIR) in an electrical distribution network.  It receives protection and
fault-indicator signals from SCADA, locates the fault from the signals of a
time window, groups faults that must be treated together, computes a plan of
breaker operations, and carries the plan out by remote control, either on its
own or under an operator at a console.  Everything is one process of POSIX
threads around a few global lists and a relational database.

Read this file first, then `FaultLocation.tla`, `TaskPool.tla` and
`StepExecution.tla` for the threads, and `NetworkModel.tla`, `Topology.tla`,
`FaultAnalysis.tla` and `LoadTransfer.tla` for what they compute.

## 1. Inventory

| component | state | operations | interacts with |
|---|---|---|---|
| signal collection (`main.cpp` `thread_recv_rte`, `thread_scan_bus`) | `g_lstTrig` (under `trig_list_mutex`) | stamp, discard or append a signal; execute a control on a preselection answer | alarm thread and pass, through `g_lstTrig` |
| fault start and location scheduling (`thread_alarm_process`, `thread_process`, `clear_timeout_trig`) | `g_lstTask` (under `task_list_mutex`), `g_lstSecTrig`, `next_step` of each task | start a fault; clear old signals; wait, collect, locate, group | location algorithm, grouping, step execution |
| fault grouping (`FDIRR2.cpp` `GroupFault`) | `group_id`, `next_step` | give located faults that share an edge breaker a group id | called by the pass |
| step execution (`AddControlItem`, `ControlSucceed`, `ControlFailed`, `FormFdirStep`, `GetLeftStep`) | control tasks in `g_lstTask`, table `FDIR_STEP` | send, succeed, time out, next step, finish, plan anew | database, SCADA, consoles |
| console request server (`main`, `HandlerMessage`) | one thread and one reply thread per connection | pntcontrol (auto, stop, pass, manual control), fdir_step, recalc, study and simulation requests, queries, misoperation check | all lists, database |
| task pool (`AddTask`, `RemoveTask(s)`, `RecoMemTask`) | `array_fdir_r`, `map_idle_fdir_r`: `MAX_FAULT` processors | take a processor, release the oldest idle group, load a group from the database | alarm thread, consoles |
| study and simulated faults (`thread_simu_return`, `Check_Simu_Data`, `save_simu_cb_info`) | `simu_mac_trig`, `g_is_write_to_lib` | collect simulated signals per machine, answer when the plan is written | pass, under `simu_sync_mutex` |
| location and isolation algorithm (`FDIR_R`, `FDIRR2`) | zones and fault tree of one processor | zones, fault tree, edge breakers, steps | network model |
| load transfer (`FHZG`, `CntLdDv`) | paths and their loads | search for supply paths and breakers to close | network model |
| topology (`Tp`) | `ibs` of the nodes, tables of buses and islands | buses, islands and the flags of devices from breaker positions (`tp_allnew`) | network model; called by location and load transfer |
| network model (`Nmd`, `netmom`, `dsbob`, `dsbob2`) | device tables and links | load, link, check an operation for misoperation | real-time database |
| relational database access (`INTROCI`, `ExecSQL`) | connection, one result buffer, one statement buffer `sql` | read, write (a no-op on the standby node) | everything |
| real-time database access (`oodb`, `RTDB`, `DB*`, `fdirdb`) | vendor library | read and write records | everything |
| communication (`dms_tcp`, `NewCom`, `message`, `dgds`) | sockets, message bus | send, receive | server, consoles |
| device-area switching (`switch_manage`) | switch maps | match switch states of two models | network model |
| typical load curves (`typical`, `load_info`) | curves | fill loads and limits | load transfer |
| containers (`Tree.h`, `tmptable.h`, `tmpodrtb.h`) | tables, trees | insert, find, delete | algorithms |
| tools and manual tests, vendored TinyXML | - | - | - |

What makes each part correct, and what is hard about it:

- **Signals and location.** A fault is located from the signals around its
  start signal, all of them and no others; no start signal is lost or used to
  start two faults; one fault is located at a time, since the collected
  signals are one global list of pointers.  Hard: three locks taken for parts
  of the work, signals out of the order of their stamps, a list cleared under
  pointers into it, a configuration record rewritten without a lock.
- **Grouping.** Faults that touch one breaker have one plan; a group id names a
  group that exists.  Hard: a nested loop that overwrites what it has written.
- **Execution.** The steps of a plan are carried out in their order, one at a
  time, each once the one before has succeeded; every command that was sent is
  followed to its end.  Hard: the state is in three places (control tasks, fault
  task, rows) written in different orders by the pass, the consoles and the
  alarm thread; a time-out races every answer; the process may exit in between.
- **Task pool.** A processor belongs to one task, is given back when its task
  goes, and a group is loaded once.  Hard: two users of the list hold no lock, a
  reference into an erased node is used, a failed call leaves half of its work.
- **Network model.** Every pointer between two tables leads to the row it was
  set to, through three sorts and two copies; zones partition the network.
  Hard: pointers are row numbers, each class copies and converts its own by hand.
- **Consoles, simulation, database.** No request leaves a lock held, an answer
  belongs to its request, a statement is the one its thread built.
- **Topology.** Nodes are one bus exactly if closed breakers join them, and what
  is energised is exactly what is joined to a source.  Hard: circular chains that
  grow while they are walked, several sources on one island, stale node flags.
- **Algorithms.** Zones partition the network, the faulty zone is the one
  below the last signal, isolation separates it, transfer closes no loop and
  overloads nothing.

The hazards, each at the line where it bites, are in `PROJECT.json`.

## 2. Modules

| module | models | kind |
|---|---|---|
| `TaskList` | `std::list` as the server uses it: members, position, erase | operators |
| `FaultGrouping` | the result of `GroupFault` in closed form | operators |
| `GroupFaultLoop` | the two loops of `GroupFault`, one comparison per step | specification |
| `FaultLocation` | the threads from signal to planned group | specification |
| `TaskPool` | the task list and the processors between alarm thread, pass and consoles | specification |
| `SimulatedFault` | simulated signals of the study version, from the request to the answer | specification |
| `StepExecution` | the plan of one group from GROUPED to its archive | specification |
| `StepPlan` | what automatic execution promises | abstract specification |
| `NetworkModel` | start-up of the network model and the search for zones (`Nmd`, `dsbob`, `dsbob2`) | specification |
| `Topology` | `tp_allnew`: buses, islands, dead and open branches | specification |
| `DeviceTree` | the tree of `Tree.h` | operators |
| `FdirZones` | zones of a processor and the breakers that supply them (`FDIR_R.cpp`) | operators |
| `FaultAnalysis` | location and isolation by one processor, fault after fault | specification |
| `TransferPlan` | `FHZG::Do` and what it calls | operators |
| `LoadTransfer` | a transfer from the request to the last operation, and replanning | specification |
| `MC...` | networks, requests and values for TLC | model values |
| `NetworkInvariants` | what a pass of `NetworkModel` has built (`IInv`) and listed (`SInv`) between two calls, for its proofs | operators |
| `TaskListProofs`, `GroupFaultLoopProofs`, `FaultLocationProofs`, `TaskPoolProofs`, `SimulatedFaultProofs`, `StepExecutionProofs`, `TopologyProofs`, `NetworkProofs` | theorems about the module named (`StepExecutionProofs` also about `StepPlan`) | proofs |

How they fit together.  `FaultLocation` treats every fault from signal to group and
leaves the location algorithm and its result open; `FaultAnalysis` is that algorithm
for one processor.  `FaultLocation` uses `FaultGrouping`, which extends `TaskList`;
`GroupFaultLoop` shows that the loops end there.  `StepExecution` continues where
`FaultLocation` has a group "PLANNED" and implements `StepPlan`; `TaskPool` has many
groups and all callers of the list, but a plan in it has no steps, only a control
that is added and goes.  `SimulatedFault` has its own short alarm thread and pass, since
the study version locks, groups and writes otherwise.
`NetworkModel` makes the tables that `Topology`, `FdirZones`,
`FaultAnalysis` and `LoadTransfer` take as given; `FaultAnalysis` and `LoadTransfer`
share `FdirZones` and `DeviceTree`.

### FaultLocation

A signal is identified by its stamp `tm_add`, a fault by the stamp of its start
signal, which is what `head.fault_id` prints.  `now` is the clock in ticks of
`tv_usec`, `Sec` what `tv_sec` shows.  The variables `g_lstTrig`, `g_lstSecTrig`,
`g_lstTask`, `next_step`, `group_id`, `lst_fault` have the code's names; `start`
is which signals pass the test at main.cpp:3414, `edge` what `get_edge_cb()`
returns, `visit` the iterator of a pass (0: `task_list_mutex` is free), `alarm`
the two halves of `thread_alarm_process`.

| action | code |
|---|---|
| `Stamp`, `Discard`, `Push` | `gettimeofday`, a `continue`, `push_back` in `thread_recv_rte` and `thread_scan_bus` |
| `AlarmScan`, `AlarmStart`, `AlarmIdle` | the half under `task_list_mutex`, then the half under `trig_list_mutex` |
| `AlarmStartLost` | the unlocked `push_back` of `AddTask` runs into an `erase` of the pass |
| `BeginPass` | `clear_timeout_trig` at the head of a pass |
| `VisitSleep`, `VisitCalcOk`, `VisitCalcFail`, `VisitCalcIso`, `VisitGrouped`, `VisitPlanned` | the branches of `thread_process` |
| `FinishGroup` | `RemoveTasks` by a console or at the end of a plan |
| `Restart` | the process exits and starts again with empty lists |

A pass visits the nodes one at a time, so the other threads run between any two
of them unless a mutex forbids it.  After a removal it goes on with the second
node of the list (`it = begin()`, then `it++`), as the code does.  The location
algorithm may succeed with any set of edge breakers, or fail.  What is read
from `g_FdirConfig` may be 0 when `ConfigRace` is set, because `GetFdirConfig`
zeroes the record before it fills it.  A pointer to a signal that has been
erased would write to memory that may belong to a later signal (`MarkUsed`);
`CollectedAlive` shows when that cannot happen.

### StepExecution

One fault group.  `controls` are its control tasks in the order of `g_lstTask`
(new ones are pushed to the front), `fault` the `next_step` of its fault tasks,
which are one node here because the code treats them alike; `rows` the table
`FDIR_STEP` in the order of `STEP`; `archived` whether the record is in
`FDIR_FDIRECT_HIS`.  `todo` holds what a thread has still to do for a request
where the code gives up the lock, or never takes it, in the middle.

| action | code |
|---|---|
| `VisitGrouped`, `VisitIso`, `VisitFault`, `VisitRecalc` | the branches of the fault task |
| `VisitWait`, `VisitStay`, `VisitTimeout`, `VisitSucceed`, `NextStep`, `FinishGroup`, `VisitOver` | the branches of a control task; `VisitSucceed` and `NextStep` are `ControlSucceed` and the `GetLeftStep` after it |
| `Age` | `TIMEOUT_CONTROL` seconds have passed since `tv_creat`; it also stands for a time-out that is read as 0 |
| `SetAuto`, `Stop`/`StopRemoves`, `Finish`, `Pass`/`PassLeft`/`PassFinishes`, `Control`/`ControlReturns` | pntcontrol; `stop` stands for manposer, no_Fault and invalid too |
| `Plan`/`PlanInserts` | fdir_step, row by row |
| `Recalc`/`RecalcMarks` | recalc and `invalid_recalc` |
| `Evict`/`EvictArchives` | `AddTask` of another fault releases this group |
| `Restart` | the process exits; the rows remain |

Simplifications, each on the side of more behaviour or without an effect on the
properties: a breaker outside `InRegion` is the dispatcher's (no command is
sent); reads fail only as far as `ReadFails` says; the duty node is modelled,
on which `ExecSQL` does write; the SQL statements of one action are atomic; a
console acts after the group has been computed; `SIMULATE` and the study
version are left out; steps with `CONTROL=0` are no rows.  `begin()` of the
empty list that a failed `GetLeftStep` leaves is undefined: either some unknown
breaker is named and its command fails, or nothing is sent.

### TaskPool

The nodes of `g_lstTask` are records of what RemoveTask(s), AddTask and the pass look
at; a fault is the number of its start, which orders `tv_creat`.  `map_idle_fdir_r` is
TRUE for a processor in use, as in the code.  `work` is the call a thread is in: the
faults it has still to add, the processor it has taken for the next, the group it has
released.  `unlinked` has the tasks a collision has left out of the list, which keep their
processors.  `group_of` and `archived` stand for FDIR_FDIRECT and its history.

| action | code |
|---|---|
| `TakeProcessor`, `Push` | `AddTask`: under `mutex_array_fault`, then `push_back` without a lock on the list |
| `PushLost` | that `push_back` (main.cpp:6491) meets another thread at the end of the list, and the task is lost |
| `Release`, `ReleaseNone`, `ArchiveReleased` | the branch of `AddTask` in which no processor is free |
| `AlarmStart`, `AlarmAdded` | `thread_alarm_process` |
| `BeginPass` ... `EndPass` | `thread_process`, which holds `task_list_mutex` for the pass |
| `SetAuto`, `Step`, `PassLast`, `Stop`, `Study` and what follows each | pntcontrol and study_fdir |

`RemoveTasks` gets a reference to the group id *in* a node it erases, so what it
compares behind that node is undefined: `RemovedBy` lets it erase all or nothing of
the rest.  The group AddTask archives after that is the one whose node has taken the
memory, or none (`ArchiveReleased`); with no releasable group the iterator has no
node, and the process ends (`ReleaseNone`).

`AddTask` does not ask for `task_list_mutex`, so its `push_back` and another thread can
write the links at the end of the list at the same time.  `PushLost` is possible while some
other thread may be erasing the last task (`TaskLeaves`, `GroupLeaves`), or putting one at
the end or at the front of an empty list (`EndsMeet`), and after a task has been lost, as
the end of the list may then point to its node.  It is a superset of what the links can come
to: whoever might be erasing is taken to be at it.  Of the outcomes of a collision only the
loss of the new task is modelled.  Not modelled are the loss of a control task, which leaves
the list as `ControlLost` does; two erasures of neighbours, after which an erased node may
be linked again; and a walk over a node that has been freed.  They are undefined, and
nothing could be said of the list after them. `FaultLocation` has the same collision of the
alarm thread with the pass (`AlarmStartLost`); there a later start is added properly again,
as its liveness is about a list whose end is sound.

The look-up of a step request holds no lock (main.cpp:9018), so two consoles can both find a
group missing and load it.  A start signal or a study adds its faults once, and a console
does not load what it has loaded; `LoadedOnce` says just that: a fault without a group is in
the list, or still to be added, at most once, one with a group at most once for each
console.

### SimulatedFault

A signal is its name and the second it is stamped with, which is all the comparison of
`thread_simu_return` looks at; a fault is the number of its start signal, which orders the
names of faults.  `FDIR_ALARM`, `FDIR_FDIRECT`, `FDIR_SIG_SUMMARY` and `FDIR_SIG_FAULT` are
the tables, `written` the parts of a plan that are in theirs.  `pass` is the place of the
pass in the task list and in the writing of a fault, which is a step per table, as the
threads read in between.  `simu_sync_mutex` is TRUE while locked, without an owner: the
pass unlocks it in `WriteSig` and in `EndPass`, whoever has it.

| action | code |
|---|---|
| `Connect`, `Disconnect` | `main`, the end of `HandlerMessage`; `thread_simu_return` outlives the connection |
| `Save`, `Preexec` and `Announce`, `Exec` and `ExecSignal` | fault_simu_save, fault_imitation_preexec and _exec, a record at a time |
| `Check`, `CheckRecord`, `Check_Simu_Data` | fault_imitation_check |
| `AlarmStart`, `LockTasks` ... `EndPass`, `Visit`, `Write` | `thread_alarm_process` and `thread_process` in the study version |
| `StudyFault` | the fault of a study_fdir request, written at once |
| `Enter` ... `Leave`, `Answer`, `Exit` | `thread_simu_return`, which ends with its first answer |

Two states are in the module that the code does not leave: a loop that does not go on to the
next record (main.cpp:8508, 3054), and `task_list_mutex` left locked by a check of something
that is no breaker (main.cpp:8384).

### NetworkModel

A table is the sequence of its rows, and a pointer is the number of a row, as in the
code.  `source` is what the real-time database holds, `rows`, `copy` and `dms` the
tables of the server, of the processors and of the DMS database.  The call that is made or
comes next is `pc`, and `at` the row its loop has come to: every call of `DoValidate` is an
action that first builds its relations (`at` is 0) and then takes one row of its table at a
time, since each finds what the ones before have linked, and stops the pass or not.  What
`operator=`, `ResetPtr` and `RebuildPtr` of a class copy, clear and convert are sets of names,
one definition per class (`CB_Copied`, `CB_ResetPtr`, `CB_RebuildPtr`), so that a member
forgotten in one of the hand-written lists is a mutant.

| action | code |
|---|---|
| `ReadPSBOB` | the readers of dsbob2.cpp with their filters (`Read`) |
| `ValidateStart`, `ST_Validate` ... `FI_Validate`, `ValidateEnd` | `NMD::DoValidate`; `ValidateEnd` sorts (`LogByPh`), rebuilds the pointers, and finds what has a voltage |
| `find_so`, `BuildZones` | its start, and its loop over the nodes: a search with the recursive `find`, and the zone it makes (`visited` is `bvisited_nd`) |
| `ReadFromDsbob2`, `WriteReDB2` | the copies for the processors and for the consoles |

The relation of a build is made in one go (`Related`), ordered as the two loops meet the
pairs (`Ordered`).  Checked is the result, not the pointers on the way: `LinksTrue` compares
each pointer with the ids of both rows, in all three copies; `NetworkComplete` and `ZonesTrue`
compare relations and zones with what the records say.  `r_zn_nd` and `r_st_so` are
left out of `LinksTrue`: RebuildPtr converts the first twice and `add_so` replaces the
rows the second points to (hazards at their lines).

### Topology

One call of `tp_allnew` on a network that is fixed for the call.  A node is its
position in `nd_tb`; an edge is a breaker, a section or a winding between two
nodes.  `ibs`, `nextbs`, `g_nbr`, `qndgrp`, `iisland` have the code's names;
`bs_open` is which buses have `BS_OPEN`, `processed` those with `bch_bs = -1`,
`chain` the process chain that `fch_bs` holds.

| action | code |
|---|---|
| `StartGroup`, `WalkNode`, `NodesSorted` | the head of the loop of `tp_nd_sort`, one round of its `while(1)` (the last one with the end of the group), its return |
| `SkipSource`, `StartIsland` | the two `continue` of `tp_bs_sort`, and what follows them |
| `WalkBus` | one round of its `do`, with `tp_bs_neighbor` |
| `FinishIsland`, `MarkDead` | the island record and its buses; the last loop |
| `CompStatus` | `tp_comp_status` |

The chains are sets here, and the next element any of them: no result depends on
the order in which a chain is walked.  `FindChildNum` is translated with its
-1, so `BS_OPEN` is on the buses that have it in the code, which are not those the
comment would suggest: the branches of a group are counted too low when nodes have
sections but no windings.  No source is skipped for it, because `loadgen` does not look
at the count (`SourcesOnIslands`).  Left out: `REMOVE` flags, which no code of the
repository sets, transformers of three windings (a list of commented-out
lines), zones (`ZN_ND_USE_ARRAY` leaves them alone), and `ND_OPEN` and `ND_DEAD`,
which repeat the flags of the bus.  `tp_cb_changed` is called under a condition that
is always false (FHZG.cpp:1535).

### FaultAnalysis, FdirZones, DeviceTree

One processor, in the real-time version.  `point` is what the database says of the
breakers, `open` and `isolate` the flags in the device table, which `Prepare` (the
reading of positions at the head of `Init`) changes and the processor's next fault
finds.  `g_lstSecTrig` is any list of signals of the devices, `loc` what has been
located, `plan` what is to be opened.

`Walk` follows `build_fi_tree_BFS` in what it hangs a device below: what is behind a breaker
goes below the breaker, what is behind sections below the last indicator or the busbar of
the node, and what is behind a disconnector below the breaker hung last at this node, or,
where none is hung, below the device the walk came with (`father`, which a busbar does not
change: FDIR_R.cpp:4016, 4218).

| action | code |
|---|---|
| `Start` | the processor gets a fault; a breaker may have moved since the last |
| `Prepare`, `PrepareFails` | `Init`: positions of the breakers, zones, inflow (`BuildZone`, `FormIcbOfZone`); a record may be missing |
| `SetFaultTopflags` | kinds of signals per device, and the key device |
| `BuildTree` | the walk from the key device and its joining to one tree (`Whole`, `ChangeRoot`) |
| `GetFaultPath`, `FaultType`, `FindFaultDevs` | head and tail of the fault, and the devices between them |
| `Isolate` | `FormIsoSteps` of FDIRR2.cpp: the nearest breakers that can be operated |
| `Refused` | a breaker does not obey, and the isolation is formed again |

The properties compare trees and plans with the network itself (`Joined`): what is on
the tree, what a zone is supplied from, whether the fault is still fed once the steps
are carried out, and whether more is cut off than has to be.  Premises name what the
code takes for granted: that no breaker closes a ring on the feeder (`Radial`), that
the incoming breaker found is the one of the root (`Rooted`), that the section of the
key indicator does not begin at a breaker or load (`HalvesMeet`), that no walk meets a closed
disconnector at a node at which it hangs a breaker (`Unforked`).  A fault can break
`Rooted` and `HalvesMeet`, see the table of refuted statements.

`Unforked` is about disconnectors at busbars and branches.  A line behind a disconnector at a
busbar is in the networks of the run, and the tree is right there for a fault on another
line or behind the disconnector: the walk hangs the line beside the busbar, and `ChangeRoot`
puts the busbar's brothers below it when it becomes the root.  Without the premise
TLC refutes `TreeIsNetwork` and `FaultIsolated` for a fault of a busbar with a breaker and a
closed disconnector, as the line behind the disconnector is hung below the breaker and is
not cut off by a breaker of its own; and `TreeIsNetwork` and `TwoWalksAgree` for a
node in a line with a section, a breaker and a closed disconnector.

### LoadTransfer, TransferPlan

`TransferPlan` has `FHZG::Do` as functions of the zones, the open breakers, the
measured currents and the capacities: the two trees, by zone and by current
(`ErgodicTree`, `ReBuildTree`), the choice of feeders (`LdByOne`, `SelectSo`), the
shares (`GetLD`) and what is cut (`SelectCutLD`).  Shares are kept multiplied by their
divisor, so that no quotient is rounded.  `LoadTransfer` puts them between a request
and its operations:

| action | code |
|---|---|
| `thread_get_ivalue` | the currents are sampled again, also after the fault |
| `TransferBreaker`, `TransferBus` | a console asks `Do`, `FHZG_Bus` |
| `RestoreFault`, `RestoreOne`, `NextRound` | `calc_restore_step`, `recu_calc_restore`: for each isolating breaker a plan on each plan so far |
| `Choose`, `Operate`, `Finish` | a plan is carried out breaker by breaker (`fill_fhzg_db`, `write_fhzg_step`, which keeps the closings of a shared transfer in `m_tmp_close_steps` until all its openings are written, main.cpp:10987 and 11093) |
| `Refuse`, `ReCalc` | `re_calc_restore_step` |

An order of two children that are kept by their address is a choice (`rising`).

## 3. Runs

| run | properties | shows |
|---|---|---|
| `location_raced` | `TypeOK`, `TasksListed`, `OneLocating`, `OwnSignalKept`, `EarlierStartsUsed`, `GroupWhole` | signals out of order, configuration reads of 0 |
| `location_live` | `StartsUsed`, `WindowKept` | no fault blocks the scan for ever, no collected signal is freed, the window is collected |
| `grouping_loop` | `LoopComputesGrouping` | all edge sets over three breakers of up to four faults |
| `task_pool` | `TypeOK`, `ProcessorsOwned`, `LoadedOnce` | alarm thread, pass and two consoles share two processors, and colliding insertions lose tasks |
| `simulated` | `TypeOK`, `AnswerWhole`, `AnswerSignalsWritten`, `MutexReleased` | a console connected twice, two simulated faults, a study and a check in between |
| `exec_auto` | `TypeOK`, `PlanCarriedOut` | refinement of `StepPlan`, with crashes and failed reads |
| `exec_interfered` | `OneInFlight`, `ExecControlled`, `RestoreAfterIsolate` | two consoles and the alarm thread interfere |
| `exec_live` | `ControlsResolve` | every step that began is resolved |
| `network` | `TypeOK`, `LinksTrue`, `NetworkServed`, `ZonesTrue` | 89 databases: every part of a feeder there or missing, dangling owners, full node table |
| `topology` | `TypeOK`, `BusesAreComponents`, `EnergisedFromSource`, `IslandsTrue`, `FailsOnlyFull` | every network of four nodes of the kind described below |
| `fault_analysis` | `TypeOK`, `SuppliedOverClosed`, `TreeIsNetwork`, `TwoWalksAgree`, `FaultIsolated` | seven networks, two faults in a row, any signals, breakers that refuse or cannot be read |
| `load_transfer` | `TypeOK`, `SourcesApart`, `WithinCapacity`, `Resupplied` | four networks with loads and capacities around each other's limits |

`WindowKept` joins `CollectedAlive` and `WindowCollected`, `IslandsTrue` joins
`IslandsAreComponents` and `SourcesOnIslands`, `NetworkServed` joins `NeverExits` and
`NetworkComplete`, and `FaultIsolated` joins `FaultCutOff` and `FaultShutIn`; each part has
its own mutant.

Every property of a passing run has a mutant in `PROJECT.json`: a plausible
slip in the code that breaks it.

**Refuted statements.** The modules also state what a comment, a log message or the
structure of the code promises and the code does not keep.  They are not in a run; TLC
refutes each on the instance named:

| statement | instance | what happens |
|---|---|---|
| `FaultLocation.AllSignalsArrived` (main.cpp:4393) | `location_live` without fairness | a signal of the window's last second comes after the fault was located |
| `StepExecution.StopRemovesAll` (main.cpp:8878: every item of the fault is deleted) | `exec_interfered`, `Ops` = {"stop"} | a control task has no group id (main.cpp:6604), stays in the list and is sent |
| `SimulatedFault.AnswerHasAllSignals` (main.cpp:11934) | `simulated` | the list of announced signals was emptied by one fault, and the next, which carries none of them, answers (main.cpp:11984) |
| `SimulatedFault.CompleteAnswered` (main.cpp:11934) | `simulated`, `FairSpec`, one thread, one fault, two requests | a fault without restoration is isolated and written, but not noted as simulated (main.cpp:4940): no answer, ever |
| `StepExecution.PassedNotOperated` (main.cpp:8981) | `exec_interfered`, `Ops` = {"pass"} | a passed step's task is in the list already and is sent |
| `StepExecution.FailedReplanned` (main.cpp:2110) | `exec_live` without fairness, `Ops` = {"auto"} | an auto request continues the old plan before the new one is made |
| `NetworkModel.PointersRebuilt` (Nmd.cpp:3480) | `network` | the pointers `r_fi` of sections and `r_nd` of zones are not rebuilt, `r_zn_nd` is twice |
| `NetworkModel.BusZonesLeftOut` (Nmd.cpp:6778) | `network` | the second region that a section joins to a bus finds the bus visited, and keeps its zone |
| `FaultAnalysis.BusbarOfJxcb` | `fault_analysis` | the busbar of the key is paired with another line's incoming breaker |
| `FaultAnalysis.KeyOnTree` | `fault_analysis` | an indicator next to a breaker takes the root's place, and the location fails |
| `FaultAnalysis.TreeOverClosed` | `fault_analysis` | breakers of the processor's previous fault count as closed |

Three more follow from the definitions: with edge breakers {a}, {b}, {a, b} `GroupFault`
leaves the first fault out of the group of the other two, although the third shares a
breaker with it (`FaultGrouping`); a configuration read of 0 lets `clear_timeout_trig`
drop signals that are not old (`ConfigRace` in `location_raced`); and a group that
failed and was loaded again for a manual control turns automatic on `USER2AUTO_TIME`.

**Bounds.** `FaultLocation`: at most `MaxTrig` signals, stamps up to
`LastStamp`, a clock up to `MaxTime`, at most `MaxDelay` ticks between stamp and
append.  Two ticks are a second and the time-out is one second, so the
difference between fractional and whole seconds appears; nine ticks hold two
windows and the passes after them.  Three signals give a fault before, in and
after the window of another.  `TaskPool`: two processors and two faults from signals
or studies; two consoles can load the same group, so that a third task asks for a
processor and a group has to be released while others are added, and one task can be lost while
another is erased; one control task lets it outlive its group.  `StepExecution`: plans
of at most four steps with each kind of stage (isolate, transfer, restore), at most
`MaxRows` rows, and for requests that add a control `MaxControls` tasks; two of them is
the smallest number with which one task hides another.  Consoles are alike, so symmetry
is used where only safety is checked.  `SimulatedFault`: a console that connects twice, so
that two threads meet under the mutex; plans of one signal, one to be kept and one not;
two faults and four seconds, so that the second is located after the first, and an
announcement may have the first's second or another; three requests.  `NetworkModel`: one feeder with a station, every
kind of device, a ring of sections, and ids that fall along the feeder, so that sorting
moves every row; each optional part is there or not, and the node table has room for 5, 9
or 12 nodes.  `Topology`: four nodes with a breaker between any two, each open or closed,
give every partition of the nodes into buses, by trees and by rings; sections are any
of a ring, with a winding or none, its transformer missing or not, up to three
sources, and one node with a stale `ND_SO`.  Two islands and four buses have to be
enough, so that both tables overflow, and so do the neighbours of a bus.
`FaultAnalysis`: up to two signals for the first fault and one for the second, on two lines
with a tie, the same after a transfer, a branch, a disconnector between indicators and one
before a tie, two lines of one busbar, and one of them behind a disconnector at the busbar;
a second fault is enough to meet what the first has left in the processor. `LoadTransfer`:
amounts from 0 to 9, so that a feeder can take all, just all, a part or nothing; two and
three feeders, two ties at one zone, two ties to one feeder; two samples are averaged
instead of six; one control may be refused.

**Where the runs stop.** All runs switch the deadlock check off.  The clock of
`FaultLocation` stops at `MaxTime`, `MaxStart` faults have started in `TaskPool`, a
group of `StepExecution` is archived, a check of `SimulatedFault` has left the mutex locked, and `GroupFault`, `tp_allnew`, the start-up,
a location and a transfer return: in each of them there is then nothing left to do.

**What a run leaves out, and why.** `exec_interfered` has `USER2AUTO` off:
`FormFdirStep` on the time-out and a console's fdir_step at the same time merge
two plans, whose order is not defined (hazard at main.cpp:4328).
It has no crash and no failed breaker read either: each leaves a row in EXEC
with no task (hazards at main.cpp:3843 and 2524), and `ExecControlled` is false
then.  `exec_live` has no fdir_step: a console that replaces the plan and feeds in
controls for ever can keep the pass, which goes back to the head of the list, from
reaching a control.  `WindowCollected` is stated for a list in the order of its stamps:
a signal of the window can otherwise be behind one that is not, and the walk stops
before it.  `AnswerSignalsWritten` is checked with one console and is false with two: an
announcement clears the signals of all others (main.cpp:8481).

The properties of `load_transfer` name the cases in which they are false in the code, as
premises or alternatives: zones with more than two branches to feeders, which `GetLD`
passes over (`Forked`, FHZG.cpp:1781); feeders that lost to a rival at their node and
are offered all the same (FHZG.cpp:1385); a breaker without a measurement, which counts
as -1 (FHZG.cpp:854); samples from after the fault (`late`, main.cpp:12157); a second
breaker of one restoration, planned from the same currents (FDIRR2.cpp:1971); two ties
to one feeder, whose second tree is missing, so that NULL is followed (`SharedFeeder`,
FHZG.cpp:2383).  `Resupplied` does not speak of a restoration after a refusal, whose
rest is planned again by other breakers (FDIRR2.cpp:2537).

**Fairness.** `FaultLocation`: the clock, the producers and the pass are weakly
fair, being loops of their own threads that block only on locks held for a
bounded time.  `AlarmScan` and `AlarmStart` are strongly fair: the scan needs
`task_list_mutex`, which is taken and released over and over, and the pass
sleeps a second between two rounds, so a thread that waits for the lock gets
it; a start that collides with an erase may happen, but not every time.
`StepExecution`: the pass and the running out of `TIMEOUT_CONTROL` are weakly
fair.  Requests, evictions and restarts are never forced.
`SimulatedFault` (for `CompleteAnswered`): the handlers, the pass and the threads are weakly
fair while they hold what they need, and strongly fair where they wait for a mutex: those
who hold it sleep between two rounds, a millisecond or a second.  The handling of one
announcement is taken to be shorter than `TIMEOUT_PROTPNT`, which is many seconds.

## 4. Proofs

TLAPS checks the theorems for every value of the constants; TLC checks the same properties
on the instances above, and each inductive invariant was first checked by TLC there.  An
assumption of a theorem beyond the types of the constants is a definition of its proof
module and stands in the table.

| module | theorem | states | assumes |
|---|---|---|---|
| `FaultLocationProofs` | `TypeCorrect` | `[]TypeOK` | |
| | `SignalOrder` | `[]SignalOrderInv` | |
| | `AtMostOneLocating` | `[]OneLocating` | |
| | `OneTaskPerFault` | `[]TasksListed` | |
| | `StartSignalsKept` | `[]OwnSignalKept` | |
| | `NoStartOvertaken` | `[]EarlierStartsUsed` | |
| | `GroupsStayWhole` | `[]GroupWhole` | |
| | `WindowsKept` | `WindowKept` | `InTime` |
| `GroupFaultLoopProofs` | `LoopGroupingInv`, `LoopGrouping` | `[]GroupingInv`, `[]LoopComputesGrouping` | |
| `TaskPoolProofs` | `TypeCorrect` | `[]TypeOK` | |
| | `ProcessorsKept` | `[]ProcessorsOwned` | |
| | `NoFaultTwice` | `[]LoadedOnce` | |
| `SimulatedFaultProofs` | `TypeCorrect` | `[]TypeOK` | |
| | `AnswersWhole` | `[]AnswerWhole` | |
| | `MutexAlwaysReleased` | `[]MutexReleased` | |
| | `AnswersOnlyWritten` | `[]AnswerSignalsWritten` | `OneConsole` |
| `StepExecutionProofs` | `TypeCorrect` | `[]TypeOK` | |
| | `NoCommandForgotten` | `[]ExecControlled` | `CommandsNoted` |
| | `OneBreakerAtATime` | `[]OneInFlight` | `NothingLoads` |
| | `ClosesOnlyIsolated` | `RestoreAfterIsolate` | `NothingLoads`, `PlannedOnce`, `PlansIsolateFirst` |
| | `ServerImplementsPlan` | `PlanCarriedOut` | `LeftAlone`, `PlansOnce`, `NoneIsNone` |
| `TopologyProofs` | `TypeCorrect` | `[]TypeOK` | |
| | `BusesCorrect` | `[]BusesAreComponents` | |
| | `EnergisedCorrect` | `[]EnergisedFromSource` | |
| | `IslandsCorrect`, `SourcesCorrect`, `IslandsTrueCorrect` | `[]IslandsAreComponents`, `[]SourcesOnIslands`, `[]IslandsTrue` | |
| | `FailsOnlyWhenFull` | `[]FailsOnlyFull` | |
| `NetworkProofs` | `TypesKept` | `[]TypeOK` | |
| | `LinksKept` | `[]LinksTrue` | |
| | `NetworkServedKept` | `[]NetworkServed` | `ApartAssumption` |

**`FaultLocationProofs`**, with and without `ConfigRace`.  None of `OneLocating`,
`TasksListed`, `OwnSignalKept` and `EarlierStartsUsed` is inductive.  That no fault loses its
start signal depends on *which* fault is the first of the task list, because
`clear_timeout_trig` erases before the start signal of that one.  So `SignalOrderInv` states
that the tasks stand in the order of their start signals (`TasksInSignalOrder`).  That order
is kept since a new fault starts behind all of them, which needs that every earlier start
signal has been used (`EarlierStartsUsed`).  A start signal before a task's own cannot be
unused, because a fault uses its own signal when it is located (`OwnSignalUsed`), no two
faults are located at once (`OneLocating`), and stamps are never used twice
(`StampsDistinct`).  The proof has one lemma per group of actions; the clearing of the list
is the long one (`ClearSignalOrder`).

`WindowKept` needs more: that what was collected is still there when the fault is located.
`clear_timeout_trig` runs in between, and its anchor may be another fault.  `WindowInv` says
why it does no harm: signals are appended at most `MaxDelay` out of order
(`AppendedInTime`), whoever is past SLEEP is older than the time-out (`AwakeOld`), so what is
behind its start signal and unused is later in time (`UnusedLater`), so the fault being
located is the latest of all (`LocatingLatest`), and what was collected before its start
signal reaches back without a gap of a time-out (`CollectedNear`): a walk that erases one of
them has to stop before.  The theorem assumes `InTime`: the time-out is not read while it is
rewritten, and a signal is appended within the time-out of its stamp.  The first is the
hazard at main.cpp:1208, with which the property is false.  The second is what the code
does in all but name, since between the stamp and the `push_back` there are a few reads of
records and the time-out is many seconds; it cannot be dropped.  With
`TIMEOUT_PROTPNT` = 1, `TicksPerSec` = 2, `MaxDelay` = 6, `MaxTrig` = 4, `LastStamp` = 4 and
`MaxTime` = 9, TLC finds an earlier start signal appended late, whose fault is removed first;
the anchor is then a later one, and the collected signals are erased under `g_lstSecTrig`.

`GroupWhole` is inductive together with `TypeOK` and `SignalOrderInv`, which knows that a
fault about to start has no group yet: `GroupFault` names a group by a fault that is in it,
and planning, finishing and removing touch all of a group.

**`GroupFaultLoopProofs`**.  The result is no invariant of the loops: in between, a fault has
the group of the last fault it has *been compared with*, and a fault that has none yet must
not be anybody's last (`GroupingInv`, with `Seen` for what has been compared).  When the
loops are over `Seen` is `EarlierSharers`, and the `CHOOSE` of `LastOf` is the witness of the
invariant.  So the grouping `FaultLocation` assumes is what the code computes for every task
list.

**`TaskPoolProofs`**.  `ProcessorsOwned` counts over tasks, over threads that have taken a
processor and not yet pushed its task, and over lost tasks; the invariant says it by
positions in the list, in six parts (`Owned1` to `Owned6`).  It rests on what a call may
have in hand (`CallsFit`) and who holds the lock (`LockHeld`), and each removal is shown
once to leave the tasks of the other positions as they were, each once (`Leaves`), whatever
the freed text is compared with.  `LoadedOnce` needs besides which faults a call has still
to add (`Pending`), since another call must not add the same, and that a group in the
database is the group of its tasks.  A step request looks its group up without the lock
while others load it, so the invariant gives every position of a fault in the list, and
every call that has still to add it, a console of its own (`Seats`).  A console begins to
load only when it finds no position, and is in no call itself, so that each call can have
its own console as its seat (`CallBegins`, `OwnSeats`); that bounds the number
(`SeatsBound`).

**`SimulatedFaultProofs`**.  `simu_sync_mutex` has no owner, and the pass unlocks it while a
thread may hold it, so no proof can use that a thread is alone.  Instead, what a thread
reads is stable: a fault whose record is there has been located (`Recorded`), everything of
it is written before `FDIR_SIG_FAULT` names it (`SigFaultsSettled`), and the pass is at one
place (`PassPlace`).  So an answer is whole whoever else is inside.  `MutexReleased` needs
where the pass and each thread are (`PassPlace`, `ThreadTypes`).  `AnswerSignalsWritten` needs `StruckOff`: what was announced
and is not waited for any more was written; `OneConsole`, because each announcement clears
the signals of all consoles (main.cpp:8481), which makes it false for two.

**`StepExecutionProofs`**.  Type correctness holds with `AtItsControl`: nobody moves the
control the pass is at between `ControlSucceed` and the step after it, though nearly everything
else may change there.  The assumptions and why:

- `CommandsNoted`: no crash, and breakers can be read.  Otherwise a row stays in EXEC without
  a task (hazards at main.cpp:3843 and 2524), and `ExecControlled` is false.  The invariant
  adds that a control that has succeeded has its row written (`DoneWritten`).
- `NothingLoads`: no request auto or control, and recalc only when manual groups stay manual
  (`USER2AUTO` off).  Auto and control send a command themselves, beside one that may be under
  way, and recalc loads the group, which with `USER2AUTO` turns automatic in the middle of a
  control.  With any of the three TLC finds `OneInFlight` violated; it is the operator who
  operates beside the server then, and the property is about automatic execution.  The
  invariant adds that nothing moves while a plan may still be formed (`StillNone`).  The
  number of consoles, their other requests, crashes and failed reads are not restricted.
- `PlansIsolateFirst`: a plan has no isolation behind a transfer or restoration.  The server
  writes isolation, transfer and restoration in that order (main.cpp:1464 to 1561); the code
  does not check the plan of an operator.  `PlannedOnce`: the server and a console do not both write one, which merges two
  plans (hazard at main.cpp:4328).  The invariant `Ordered` speaks of the rows that wait and
  of the rows a console has still to write, and of failed rows: while a control is under way
  there is none (`NoneOutstanding`).

**The refinement** (`StepExecutionProofs`).  Initial states map to initial states of `StepPlan` and every step to a
step of it or a stutter (`ServerImplementsPlan`), with crashes, breakers that cannot be
read and `ControlFailed` that gives up.  `LeftAlone` leaves consoles and evictions out, whose
plans are not the server's, and the failed `GetLeftStep` that names an unknown breaker.  A
plan names a breaker once (`PlansOnce`), as its rows are updated by the breaker, and "none"
is not a breaker.  `Carrying` relates the three places of the state: which rows a control in
the list stands for, what is true once it has succeeded (`Between`), before the plan and
after the archive.

**`TopologyProofs`**, for every network of `NetworkType` and every table size.  That two nodes
are joined is said without paths, and so without induction: every part of the network that no
edge leaves and that holds the one holds the other (`Joined`).  The invariant then has two
halves for the buses and two for the islands.  What has one number is joined
(`BusesJoined`, `IslandsJoined`), by transitivity along the edge that brought the new element;
and no edge leads out of what has been walked (`BusesClosed`, `IslandsClosed`), for which the
walked element on the other side would have had to bring this one in, as edges lead both ways
(`NeighborsSymmetric`).  When nothing is left to be walked, a bus or an island is a part that
no edge leaves (`ClosedPart`), so what is joined to it belongs to it.  Types are not inductive
alone: that a group has a bus below the end of the table is `GroupInMaking`, that a neighbour
is a bus is `NodesSortedInv`.  That a source is never skipped rests on `OpenWithoutSource`.
That the call fails only for a full table is a count: when no bus is left, a node without bus
and one of every bus are in different parts (`GroupsFull`), when no island is left, the source
at hand and one of every island are (`IslandsFull`), and nodes of different parts are no more
than the parts (`PartsCounted`).  It needs that no number was given out for nothing
(`UsedInv`).

**`NetworkProofs`**, for every content of the real-time database (`SourcesAssumption`: node
numbers and keys are naturals, and no two sections have one key).  That a pointer leads to the
row it was set to is not inductive, as most of the time some pointers are still physical and
some relations not there.  The invariant `IInv` (in `NetworkInvariants`) follows the start-up through its phases.  In a pass
(`Running`) it knows which relations are still to be built (`Left`, `Pending`), that every
pointer set so far leads to its row by the keys of both (`PassTrue`, `PtrTrue`, `Leads`) and that
the rows of one parent are chained in their order both ways (`Chained`).  Two things the code
leaves are in it: a station's first switch is not cleared between two passes (`Old`, `Stale`),
and without stations nothing is cleared at all (`Idle`).  Sorting is a permutation because keys
are unique (`Positions`, from `UniqueIds` and `~Twice`); a pointer that is converted and whose
row and target are both moved leads where it led (`RebuildIsMove`, `RebuiltJoined`), and a chain
keeps one first and one last row (`OnceEnded`).  What is sorted once stays as it is when
`WriteReDB2` sorts again (`OrderedStay`), and `operator=` and the records of the database copy
every key and every pointer (`AssignIsCopy`, `RecordKeeps`), which is where a member forgotten in a
hand-written list would show.  The inserts at the end of a node's chain use that the walk
along it ends at its last row (`ChainEnd`).

`NetworkServedKept` needs more than where pointers lead: what a pass has listed so far.
`SInv` says of every relation that its rows name the branches, loads and buses that the loop
has come past and nothing else (`Built`, `Complete`), and that no two
rows are about one thing (`Apart`), by which `DTable::Insert` finds no row that it has and does
not end the server.  Each call has a lemma that it lists its own table and leaves what the
calls before it have listed; the end of the pass carries it through the sort, the
`RebuildPtr` of every class, `SetVL` and `add_so`; and zones, whatever `find` returns, keep it, as
`BuildZones` changes no row of the tables it is about.  A pass that breaks off promises nothing
but that it has broken off.  `ApartAssumption` stands in `NetworkModel`: a station is in the
database once, and an earthing switch or feeder area has two different ends.  The readers of
the other branches compare the ends and leave such a record out (`TwoEnded`); for these two
they do not (dsbob2.cpp), and a record with one node twice would be inserted at that
node twice.

**`TaskListProofs`**.  `Only(s, K)` is the subsequence of `s` at the positions `K`.  Its
definition picks the increasing numbering of `K`, so that nothing has to be computed by
recursion: `NumberedUnique` shows that there is but one, `OnlyProperties` what comes of it,
`EraseProperties` what an erasure leaves.  These are lemmas of the proofs above.

**Only model-checked.**  `ZonesTrue` of `NetworkModel`: the zones come from `find`, which is
recursive, and what a recursion computes for every input would need induction over data,
which is out of the prover's reach; so nothing is proved about what `find` returns, and
`TypesKept`, `LinksKept` and `NetworkServedKept` hold whatever it does.  `FaultAnalysis` and
`LoadTransfer` with the operators they use: their algorithms are recursive (the growing of the
tree, the search for supply paths) or folds over whole tables, and a module that reaches a
RECURSIVE operator cannot have theorems.  `StartsUsed` and `ControlsResolve` are liveness under fairness, which is out
of the prover's reach as well.

## 5. What is left

Further theorems worth having: `OneInFlight` with the requests `NothingLoads` leaves out, for
an operator who asks for them only while nothing of the group is under way.

Not modelled:

- **Simulated faults**: `save_simu_cb_info` and the queries of saved plans (rows of texts),
  and the real-time version of fault_imitation_exec, which sends the signals over the
  message bus, from where they come back without the plan.
- **Connections, statement buffer, result buffer** (`main`, `ExecSQL`): the race is that
  several threads use one array (main.cpp:110 and 7491, hazards); what comes out of it is
  any statement.  The other modules take each statement to be atomic, as the vendor's
  library gives no other promise.
- **Misoperation check and colouring** (`FIND_TYPE_MISOPERAT` of `find_so`, main.cpp:9054):
  a question that changes no state but the marks of the search.  A send that fails leaves
  `g_rq_mutex` locked (main.cpp:9174), the second end of a ring breaker finds the nodes of
  the first visited, and an open disconnector is walked through (Nmd.cpp:5984).
- **Location**: faults of a load and simulated faults (`ExecFdir`), `FDIR_R2::FaultDetection`,
  virtual breakers, texts and lines of faults, the older `FDIR_R::FormResSteps`.
- **Transfer**: the tables of capacities (`GetFullcap`) and the protection settings (queries),
  `CntLdDv` (counts the loads behind a plan), the text of the plan.
- **Network model**: `ReadReDB` and `WriteReDB` (no caller), names and voltages.
- **Topology**: flags `ND_OPEN` and `ND_DEAD`, `REMOVE`, windings of three, and
  `tp_cb_changed` (see above).
- **Vendor libraries and I/O**: real-time database, message bus, sockets, TinyXML.
- **Device-area switching and load curves**: copies and arithmetic on one call's data.
- **Tools and manual tests**: programs of one thread that write or print test values.

Three things were seen while modelling and are in no property.  A study request
waits until all its faults have a group (main.cpp:8125); one whose task the pass has removed
or another fault has released never gets one, and the console's thread waits for ever
(`StudyLooks`, `StudyAnswers`).  When `USER2AUTO_TIME` is over, the steps left are read by the
id of the fault, where the id of the group is meant (main.cpp:4332).  `GetCombination`
forgets the least amount it has found at each choice, so that the last sufficient choice is
cut off and not the least (FHZG.cpp:2152).
