---------------------------- MODULE SubmitProofs ----------------------------
(***************************************************************************)
(* What a submission tells its caller is true, for any number of tasks,    *)
(* any chunk size and any faults: AcceptedIsStored and PartialIsPrefix.    *)
(* No task is taken more often than there is a reason for, nor early:      *)
(* OnceAndInTime.  TypeOK is proved from the same invariant.               *)
(***************************************************************************)
EXTENDS Submit, TLAPS

USE DEF Paths, Single, Workflow

\* Where the pipeline stands: all chunks before from are stored; within the chunk what
\* was executed without an error is; behind it nothing is.
PipeInv ==
    /\ from \in 1 .. Batch
    /\ next \in from .. ChunkEnd
    /\ 1 .. from - 1 \subseteq stored
    /\ stored \cap 1 .. Batch \subseteq 1 .. ChunkEnd - 1
    /\ phase \in {"build", "load"} =>
          /\ next = from /\ failed = FALSE
          /\ stored \cap 1 .. Batch \subseteq 1 .. from - 1
    /\ failed = FALSE => from .. next - 1 \subseteq stored
    /\ phase = "ok" => 1 .. Batch \subseteq stored

\* Nothing is queued, taken or reported that was not stored.
RunsInv ==
    /\ ready \subseteq stored /\ delayed \subseteq stored /\ active \subseteq stored
    /\ unheard \subseteq stored \X Reports
    /\ \A i \in 1 .. Count : takes[i] # 0 \/ held[i] # 0 => i \in stored

\* A task that is not valid stops the call before it stores anything.
InvalidInv == ~AllValid => phase \in {"build", "error"} /\ stored = {}

Basic ==
    /\ call \in Calls
    /\ phase \in {"build", "load", "exec", "ok", "error"}
    /\ failed \in BOOLEAN
    /\ takes \in [1 .. Count -> Nat] /\ held \in [1 .. Count -> Nat]

IInv == Basic /\ PipeInv /\ RunsInv /\ InvalidInv

-----------------------------------------------------------------------------
\* A chunk is not empty and ends within the batch.
LEMMA Sizes ==
    ASSUME call \in Calls
    PROVE  /\ Count \in Nat /\ Batch \in 1 .. Count
           /\ from \in Nat => ChunkEnd \in Int /\ (from <= Batch => ChunkEnd > from /\ ChunkEnd <= Batch + 1)
<1>1. call.path \in Paths BY SubmitAssumption
<1>2. ChunkSize \in Nat /\ ChunkSize >= 1 BY SubmitAssumption
<1>3. Count \in Nat /\ Batch \in 1 .. Count
  <2>1. Count \in Nat /\ Count >= 1 /\ (call.path = "chord" => Count > 1)
    BY SubmitAssumption DEF Count
  <2> QED BY <1>1, <2>1 DEF Batch
<1>4. ASSUME from \in Nat
      PROVE  ChunkEnd \in Int /\ (from <= Batch => ChunkEnd > from /\ ChunkEnd <= Batch + 1)
  BY <1>2, <1>3, <1>4 DEF ChunkEnd, Lower
<1> QED BY <1>3, <1>4

\* The arguments of the call do not change, nor do the sizes derived from them.
LEMMA Frame ==
    ASSUME call' = call
    PROVE  /\ Count' = Count /\ Batch' = Batch /\ (AllValid <=> AllValid')
           /\ Begin' = Begin
           /\ from' = from => ChunkEnd' = ChunkEnd
BY DEF Count, Batch, AllValid, Begin, ChunkEnd, Lower

\* Nothing is stored before the first chunk.
LEMMA InitIInv == Init => IInv
<1> SUFFICES ASSUME Init PROVE IInv OBVIOUS
<1>1. call \in Calls BY DEF Init
<1>2. /\ from = 1 /\ next = 1 /\ failed = FALSE /\ stored = {} /\ ready = {} /\ delayed = {}
      /\ phase = "build" /\ active = {} /\ unheard = {}
      /\ takes = [i \in 1 .. Count |-> 0] /\ held = [i \in 1 .. Count |-> 0]
  BY DEF Init
<1>3. PipeInv BY <1>1, <1>2, Sizes DEF PipeInv
<1> QED BY <1>1, <1>2, <1>3 DEF IInv, Basic, RunsInv, InvalidInv

\* Every step of the call, of its retries and of the worker keeps the invariant.
LEMMA StepIInv == IInv /\ [Next]_vars => IInv'
<1> SUFFICES ASSUME IInv, [Next]_vars PROVE IInv' OBVIOUS
<1>a. /\ Count \in Nat /\ Batch \in 1 .. Count /\ from \in Nat /\ from <= Batch
      /\ ChunkEnd \in Int /\ ChunkEnd > from /\ ChunkEnd <= Batch + 1 /\ next \in Nat
      /\ from <= next /\ next <= ChunkEnd
  <2>1. Count \in Nat /\ Batch \in 1 .. Count BY Sizes DEF IInv, Basic
  <2>2. from \in Nat /\ from <= Batch /\ from >= 1 BY <2>1 DEF IInv, PipeInv
  <2>3. ChunkEnd \in Int /\ ChunkEnd > from /\ ChunkEnd <= Batch + 1
    BY <2>2, Sizes DEF IInv, Basic
  <2> QED BY <2>1, <2>2, <2>3 DEF IInv, PipeInv
<1>b. call' = call
  BY DEF Next, vars, Build, Load, Exec, ExecError, Broken, Reply, Promote, Take, Report,
         ReportUnheard, ReportAgain, Drop, Recover, SetResult, LoseResult, Wait, GetResult, Tick
<1>c. /\ Count' = Count /\ Batch' = Batch /\ (AllValid <=> AllValid')
      /\ Begin' = Begin /\ (from' = from => ChunkEnd' = ChunkEnd)
  BY <1>b, Frame
<1>1. CASE Build
  <2>1. Begin \in {"load", "exec"} BY DEF Begin
  <2>2. /\ from' = from /\ next' = next /\ failed' = failed /\ stored' = stored
        /\ ready' = ready /\ delayed' = delayed /\ takes' = takes /\ workVars' = workVars
        /\ phase = "build"
        /\ phase' = IF AllValid THEN Begin ELSE "error"
    BY <1>1 DEF Build, queueVars, histVars
  <2> QED BY <1>a, <1>b, <1>c, <2>1, <2>2 DEF IInv, Basic, PipeInv, RunsInv, InvalidInv, workVars
<1>2. CASE Load
  <2>1. /\ from' = from /\ next' = next /\ failed' = failed /\ stored' = stored
        /\ ready' = ready /\ delayed' = delayed /\ takes' = takes /\ workVars' = workVars
        /\ phase = "load"
        /\ phase' \in {"exec", "error"}
    BY <1>2 DEF Load, queueVars, histVars
  <2> QED BY <1>a, <1>b, <1>c, <2>1 DEF IInv, Basic, PipeInv, RunsInv, InvalidInv, workVars
<1>3. CASE Exec
  <2>1. /\ from' = from /\ next' = next + 1 /\ failed' = failed /\ stored' = stored \cup {next}
        /\ takes' = takes /\ workVars' = workVars /\ phase = "exec" /\ phase' = phase /\ next < ChunkEnd
        /\ ready' \subseteq ready \cup {next} /\ delayed' \subseteq delayed \cup {next}
    BY <1>3 DEF Exec, Put, histVars
  <2>2. from .. next + 1 - 1 = (from .. next - 1) \cup {next} BY <1>a
  <2>3. PipeInv'
    BY <1>a, <1>b, <1>c, <2>1, <2>2 DEF IInv, Basic, PipeInv
  <2> QED BY <1>a, <1>b, <1>c, <2>1, <2>3 DEF IInv, Basic, RunsInv, InvalidInv, workVars
<1>4. CASE ExecError
  <2>1. /\ from' = from /\ next' = next + 1 /\ failed' = TRUE /\ stored' = stored
        /\ ready' = ready /\ delayed' = delayed /\ takes' = takes /\ workVars' = workVars
        /\ phase = "exec"
        /\ phase' = phase /\ next < ChunkEnd
    BY <1>4 DEF ExecError, queueVars, histVars
  <2> QED BY <1>a, <1>b, <1>c, <2>1 DEF IInv, Basic, PipeInv, RunsInv, InvalidInv, workVars
<1>5. CASE Broken
  <2>1. /\ from' = from /\ stored' = stored /\ ready' = ready /\ delayed' = delayed
        /\ takes' = takes /\ workVars' = workVars /\ phase = "exec"
        /\ \/ phase' = "exec" /\ next' = from /\ failed' = FALSE
           \/ phase' = "error" /\ next' = next /\ failed' = failed
    BY <1>5 DEF Broken, queueVars
  <2>2. PipeInv'
    <3>1. CASE phase' = "exec" /\ next' = from /\ failed' = FALSE
      <4>1. from .. from - 1 = {} BY <1>a
      <4> QED BY <1>a, <1>b, <1>c, <2>1, <3>1, <4>1 DEF IInv, Basic, PipeInv
    <3>2. CASE phase' = "error" /\ next' = next /\ failed' = failed
      BY <1>a, <1>b, <1>c, <2>1, <3>2 DEF IInv, Basic, PipeInv
    <3> QED BY <2>1, <3>1, <3>2
  <2> QED BY <1>a, <1>b, <1>c, <2>1, <2>2 DEF IInv, Basic, RunsInv, InvalidInv, workVars
<1>6. CASE Reply
  <2>1. /\ stored' = stored /\ ready' = ready /\ delayed' = delayed /\ takes' = takes
        /\ workVars' = workVars
        /\ next' = next /\ phase = "exec" /\ next = ChunkEnd
    BY <1>6 DEF Reply, queueVars, histVars, GiveUp
  <2>2. CASE failed
    <3>1. phase' = "error" /\ from' = from /\ failed' = failed
      BY <1>6, <2>2 DEF Reply, Clean, GiveUp
    <3> QED BY <1>a, <1>b, <1>c, <2>1, <3>1 DEF IInv, Basic, PipeInv, RunsInv, InvalidInv, workVars
  <2>3. CASE ~failed /\ next > Batch
    <3>1. phase' = "ok" /\ from' = from /\ failed' = failed
      BY <1>6, <2>3 DEF Reply, Clean
    <3>2. 1 .. Batch \subseteq (1 .. from - 1) \cup (from .. next - 1) BY <1>a, <2>3
    <3>3. 1 .. Batch \subseteq stored BY <2>3, <3>2 DEF IInv, Basic, PipeInv
    <3> QED BY <1>a, <1>b, <1>c, <2>1, <2>3, <3>1, <3>3 DEF IInv, Basic, PipeInv, RunsInv, InvalidInv, workVars
  <2>4. CASE ~failed /\ ~(next > Batch)
    <3>1. phase' = Begin /\ from' = next /\ failed' = FALSE
      BY <1>6, <2>4 DEF Reply, Clean
    <3>2. Begin \in {"load", "exec"} BY DEF Begin
    <3>3. 1 .. next - 1 \subseteq (1 .. from - 1) \cup (from .. next - 1) BY <1>a
    <3>4. 1 .. next - 1 \subseteq stored BY <2>4, <3>3 DEF IInv, Basic, PipeInv
    <3>5. ChunkEnd' \in Int /\ ChunkEnd' > next /\ ChunkEnd' <= Batch + 1
      <4>1. ChunkSize \in Nat /\ ChunkSize >= 1 BY SubmitAssumption
      <4> QED BY <1>a, <1>b, <1>c, <2>4, <3>1, <4>1 DEF ChunkEnd, Lower
    <3>6. PipeInv'
      BY <1>a, <1>b, <1>c, <2>1, <2>4, <3>1, <3>2, <3>4, <3>5 DEF IInv, Basic, PipeInv
    <3> QED BY <1>a, <1>b, <1>c, <2>1, <3>1, <3>2, <3>6 DEF IInv, Basic, RunsInv, InvalidInv, workVars
  <2> QED BY <2>2, <2>3, <2>4 DEF IInv, Basic
<1>7. ASSUME NEW i \in 1 .. Count, Promote(i) \/ Take(i) \/ Drop(i) \/ Recover(i) PROVE IInv'
  <2>1. /\ from' = from /\ next' = next /\ failed' = failed /\ stored' = stored
        /\ phase' = phase /\ i \in stored /\ unheard' = unheard
    BY <1>7 DEF Promote, Take, Drop, Recover, pipeVars, queueVars, workVars, IInv, Basic, RunsInv
  <2>2. ready' \subseteq stored /\ delayed' \subseteq stored /\ active' \subseteq stored
    BY <1>7, <2>1 DEF Promote, Take, Drop, Recover, queueVars, workVars, IInv, RunsInv
  <2>3. /\ takes' \in [1 .. Count -> Nat] /\ held' \in [1 .. Count -> Nat]
        /\ \A h \in 1 .. Count : h # i => takes'[h] = takes[h] /\ held'[h] = held[h]
    <3>1. takes \in [1 .. Count -> Nat] /\ held \in [1 .. Count -> Nat] BY DEF IInv, Basic
    <3>2. CASE Promote(i) \/ Recover(i)
      BY <3>1, <3>2 DEF Promote, Recover, workVars, histVars
    <3>3. CASE Take(i) BY <3>1, <3>3 DEF Take
    <3>4. CASE Drop(i)
      <4>1. held[i] > 0 /\ held' = [held EXCEPT ![i] = @ - 1] /\ takes' = takes
        BY <3>4 DEF Drop, histVars
      <4> QED BY <3>1, <4>1
    <3> QED BY <1>7, <3>2, <3>3, <3>4
  <2> QED BY <1>a, <1>b, <1>c, <2>1, <2>2, <2>3 DEF IInv, Basic, PipeInv, RunsInv, InvalidInv
<1>8. ASSUME NEW i \in 1 .. Count, NEW r \in Reports,
             Report(i, r) \/ ReportUnheard(i, r) \/ ReportAgain(i, r)
      PROVE  IInv'
  <2>1. i \in stored
    BY <1>8 DEF Report, ReportUnheard, ReportAgain, IInv, Basic, RunsInv
  <2>2. /\ from' = from /\ next' = next /\ failed' = failed /\ stored' = stored
        /\ phase' = phase /\ ready' = ready /\ takes' = takes
        /\ active' \subseteq active /\ delayed' \subseteq delayed \cup {i}
        /\ unheard' \subseteq unheard \cup {<<i, r>>}
    BY <1>8 DEF Report, ReportUnheard, ReportAgain, Executed, pipeVars
  <2>3. /\ held' \in [1 .. Count -> Nat]
        /\ \A h \in 1 .. Count : h # i => held'[h] = held[h]
    <3>1. held \in [1 .. Count -> Nat] BY DEF IInv, Basic
    <3>2. held' = held \/ (held[i] > 0 /\ held' = [held EXCEPT ![i] = @ - 1])
      BY <1>8 DEF Report, ReportUnheard, ReportAgain
    <3>3. CASE held' = held BY <3>1, <3>3
    <3>4. CASE held[i] > 0 /\ held' = [held EXCEPT ![i] = @ - 1] BY <3>1, <3>4
    <3> QED BY <3>2, <3>3, <3>4
  <2>4. RunsInv' BY <1>c, <2>1, <2>2, <2>3 DEF IInv, RunsInv
  <2> QED BY <1>a, <1>b, <1>c, <2>2, <2>3, <2>4 DEF IInv, Basic, PipeInv, InvalidInv
<1>9. CASE (\E i \in 1 .. Count : SetResult(i) \/ LoseResult(i) \/ Wait(i)) \/ GetResult
           \/ Tick \/ UNCHANGED vars
  <2>1. UNCHANGED <<pipeVars, queueVars, workVars, takes>>
    BY <1>9 DEF SetResult, LoseResult, Wait, GetResult, Tick, vars, histVars
  <2> QED BY <1>a, <1>b, <1>c, <2>1
          DEF IInv, Basic, PipeInv, RunsInv, InvalidInv, pipeVars, queueVars, workVars
<1> QED BY <1>1, <1>2, <1>3, <1>4, <1>5, <1>6, <1>7, <1>8, <1>9 DEF Next

\* The invariant holds in every reachable state.
LEMMA Inductive == Spec => []IInv
BY InitIInv, StepIInv, PTL DEF Spec

\* A call that succeeds has stored every task it was to store: the whole batch of an
\* EnqueueMany in chunks of any size, the initial tasks of a workflow.
THEOREM AcceptedStored == Spec => []AcceptedIsStored
<1>1. IInv => AcceptedIsStored BY DEF IInv, PipeInv, AcceptedIsStored
<1> QED BY <1>1, Inductive, PTL

\* A call that fails has stored the chunks before the failing one, part of that one and
\* nothing behind it; nothing at all when a task does not marshal.
THEOREM FailedPrefix == Spec => []PartialIsPrefix
<1>1. IInv => PartialIsPrefix
  <2>1. (\E i \in 1 .. Count : ~call.tasks[i].valid) => ~AllValid BY DEF AllValid
  <2> QED BY <2>1 DEF IInv, PipeInv, InvalidInv, PartialIsPrefix
<1> QED BY <1>1, Inductive, PTL

-----------------------------------------------------------------------------
\* how often a task was or still can be taken, by what the queue holds
Bit(b) == IF b THEN 1 ELSE 0
Chances(i) == takes[i] + Bit(i \in ready) + Bit(i \in delayed)

\* the command of task i is still to be sent, for the first time or once more
ToSend(i) == phase \in {"build", "load", "exec"} /\ i \in next .. Batch

\* Every chance of a task has a reason.  A task whose command is still to be sent has
\* used up the reason that command will be.
OnceInv ==
    /\ resent \in [1 .. Count -> Nat] /\ again \in [1 .. Count -> Nat]
    /\ \A i \in 1 .. Count : Chances(i) <= Bit(~ToSend(i)) + resent[i] + again[i]

\* What can be taken, now or after a lease expires, is due.
TimeInv ==
    /\ elapsed \in Nat
    /\ call.path \notin Workflow => early = {} /\ \A i \in ready \cup active : elapsed >= call.delay

\* What the delay of the call means for a task of it.
LEMMA Due ==
    ASSUME call \in Calls, call.path \notin Workflow, NEW i
    PROVE  DueOf(i) = call.delay /\ call.delay \in Nat
<1>1. call.path \in {"enqueue", "rpc", "cli", "many"} /\ call.delay \in Nat
  BY SubmitAssumption
<1>2. ByEnqueue(call.tasks[i]).due = call.delay BY DEF ByEnqueue
<1>3. ByMany(call.tasks[i]).due = call.delay BY DEF ByMany
<1>4. ByRpc.due = call.delay BY DEF ByRpc
<1>5. ByCommand.due = call.delay BY DEF ByCommand
<1>6. Job(i) \in {ByEnqueue(call.tasks[i]), ByMany(call.tasks[i]), ByRpc, ByCommand}
  BY <1>1 DEF Job
<1> QED BY <1>1, <1>2, <1>3, <1>4, <1>5, <1>6 DEF DueOf

\* No task has been stored yet.
LEMMA OnceInit == Init => OnceInv /\ TimeInv
<1> SUFFICES ASSUME Init PROVE OnceInv /\ TimeInv OBVIOUS
<1>1. \A i \in 1 .. Count : Chances(i) = 0 BY DEF Init, Chances, Bit
<1>2. \A i \in 1 .. Count : Bit(~ToSend(i)) \in {0, 1} BY DEF Bit
<1>3. OnceInv BY <1>1, <1>2 DEF Init, OnceInv
<1> QED BY <1>3 DEF Init, TimeInv

\* Chances are numbers.
LEMMA ChancesType ==
    ASSUME IInv, NEW i \in 1 .. Count
    PROVE  Chances(i) \in Nat /\ takes[i] \in Nat
BY DEF IInv, Basic, Chances, Bit

\* A step adds to the chances of a task at most what it adds to the reasons for them.
LEMMA OnceStep == IInv /\ OnceInv /\ [Next]_vars => OnceInv'
<1> SUFFICES ASSUME IInv, OnceInv, [Next]_vars PROVE OnceInv' OBVIOUS
<1>a. /\ Count \in Nat /\ Batch \in 1 .. Count /\ from \in Nat /\ from <= Batch /\ from >= 1
      /\ ChunkEnd \in Int /\ ChunkEnd <= Batch + 1 /\ next \in Nat
      /\ from <= next /\ next <= ChunkEnd
  <2>1. Count \in Nat /\ Batch \in 1 .. Count BY Sizes DEF IInv, Basic
  <2>2. from \in Nat /\ from <= Batch /\ from >= 1 BY <2>1 DEF IInv, PipeInv
  <2>3. ChunkEnd \in Int /\ ChunkEnd > from /\ ChunkEnd <= Batch + 1
    BY <2>2, Sizes DEF IInv, Basic
  <2> QED BY <2>1, <2>2, <2>3 DEF IInv, PipeInv
<1>b. call' = call
  BY DEF Next, vars, Build, Load, Exec, ExecError, Broken, Reply, Promote, Take, Report,
         ReportUnheard, ReportAgain, Drop, Recover, SetResult, LoseResult, Wait, GetResult, Tick
<1>c. Count' = Count /\ Batch' = Batch BY <1>b, Frame
<1>d. takes \in [1 .. Count -> Nat] /\ resent \in [1 .. Count -> Nat] /\ again \in [1 .. Count -> Nat]
  BY DEF IInv, Basic, OnceInv
<1>e. \A i \in 1 .. Count : i \notin stored => Chances(i) = 0
  BY DEF IInv, RunsInv, Chances, Bit
<1>1. CASE Build \/ Load \/ ExecError \/ Reply
  <2>1. /\ UNCHANGED <<ready, delayed, takes, resent, again>>
        /\ phase \in {"build", "load", "exec"} /\ next' \in {next, next + 1}
    BY <1>1 DEF Build, Load, ExecError, Reply, GiveUp, queueVars, histVars
  <2>2. \A i \in 1 .. Count : ToSend(i)' => ToSend(i) BY <1>a, <1>c, <2>1 DEF ToSend
  <2>3. \A i \in 1 .. Count : Chances(i)' = Chances(i) BY <2>1 DEF Chances
  <2> QED BY <1>c, <1>d, <2>1, <2>2, <2>3, ChancesType DEF OnceInv, Bit
<1>2. CASE Exec
  <2>1. /\ next' = next + 1 /\ phase = "exec" /\ phase' = "exec" /\ next < ChunkEnd
        /\ UNCHANGED <<takes, resent, again>>
        /\ \/ ready' = ready \cup {next} /\ delayed' = delayed
           \/ delayed' = delayed \cup {next} /\ ready' = ready
    BY <1>2 DEF Exec, Put, histVars
  <2>2. ASSUME NEW i \in 1 .. Count
        PROVE  Chances(i)' <= Bit(~ToSend(i)') + resent[i] + again[i]
    <3>1. Chances(i) <= Bit(~ToSend(i)) + resent[i] + again[i] BY DEF OnceInv
    <3>2. CASE i = next
      <4>1. ToSend(i) /\ ~ToSend(i)' BY <1>a, <1>c, <2>1, <3>2 DEF ToSend
      <4>2. Chances(i)' <= Chances(i) + 1 BY <1>d, <2>1 DEF Chances, Bit
      <4>3. Chances(i)' \in Nat BY <1>d, <2>1 DEF Chances, Bit
      <4> QED BY <1>d, <3>1, <4>1, <4>2, <4>3, ChancesType DEF Bit
    <3>3. CASE i # next
      <4>1. ToSend(i)' => ToSend(i) BY <1>a, <1>c, <2>1 DEF ToSend
      <4>2. Chances(i)' = Chances(i) BY <2>1, <3>3 DEF Chances
      <4> QED BY <1>d, <3>1, <4>1, <4>2, ChancesType DEF Bit
    <3> QED BY <3>2, <3>3
  <2> QED BY <1>c, <1>d, <2>1, <2>2 DEF OnceInv
<1>3. CASE Broken
  <2>1. /\ UNCHANGED <<ready, delayed, takes, again>> /\ phase = "exec"
        /\ \/ /\ next' = from /\ phase' = "exec"
              /\ resent' = [i \in 1 .. Count |->
                    IF i \in from .. next - 1 /\ i \in stored THEN resent[i] + 1 ELSE resent[i]]
           \/ phase' = "error" /\ resent' = resent
    BY <1>3 DEF Broken, queueVars
  <2>2. ASSUME NEW i \in 1 .. Count
        PROVE  resent'[i] \in Nat /\ Chances(i)' <= Bit(~ToSend(i)') + resent'[i] + again[i]
    <3>1. Chances(i) <= Bit(~ToSend(i)) + resent[i] + again[i] BY DEF OnceInv
    <3>2. Chances(i)' = Chances(i) BY <2>1 DEF Chances
    <3>3. CASE phase' = "error" /\ resent' = resent
      <4>1. ~ToSend(i)' BY <3>3 DEF ToSend
      <4> QED BY <1>d, <3>1, <3>2, <3>3, <4>1, ChancesType DEF Bit
    <3>4. CASE i \in from .. next - 1 /\ i \in stored /\ resent'[i] = resent[i] + 1
      BY <1>d, <3>1, <3>2, <3>4, ChancesType DEF Bit
    <3>5. CASE i \in from .. next - 1 /\ i \notin stored /\ resent'[i] = resent[i]
      BY <1>d, <1>e, <3>2, <3>5, ChancesType DEF Bit
    <3>6. CASE i \notin from .. next - 1 /\ next' = from /\ resent'[i] = resent[i]
      <4>1. ToSend(i)' => ToSend(i) BY <1>a, <1>c, <2>1, <3>6 DEF ToSend
      <4> QED BY <1>d, <3>1, <3>2, <3>6, <4>1, ChancesType DEF Bit
    <3> QED BY <2>1, <3>3, <3>4, <3>5, <3>6
  <2>3. resent' \in [1 .. Count -> Nat] BY <1>d, <2>1
  <2> QED BY <1>c, <1>d, <2>1, <2>2, <2>3 DEF OnceInv
<1>4. ASSUME NEW i \in 1 .. Count, Promote(i) \/ Take(i) PROVE OnceInv'
  <2>1. pipeVars' = pipeVars /\ resent' = resent /\ again' = again
    BY <1>4 DEF Promote, Take, histVars
  <2>2. \A h \in 1 .. Count : ToSend(h)' <=> ToSend(h) BY <1>c, <2>1 DEF ToSend, pipeVars
  <2>3. ASSUME NEW h \in 1 .. Count PROVE Chances(h)' \in Nat /\ Chances(h)' <= Chances(h)
    <3>1. CASE Promote(i)
      <4>1. i \in delayed /\ ready' = ready \cup {i} /\ delayed' = delayed \ {i} /\ takes' = takes
        BY <3>1 DEF Promote, histVars
      <4> QED BY <1>d, <4>1 DEF Chances, Bit
    <3>2. CASE Take(i)
      <4>1. /\ i \in ready /\ ready' = ready \ {i} /\ delayed' = delayed
            /\ takes' = [takes EXCEPT ![i] = @ + 1]
        BY <3>2 DEF Take
      <4> QED BY <1>d, <4>1 DEF Chances, Bit
    <3> QED BY <1>4, <3>1, <3>2
  <2>4. ASSUME NEW h \in 1 .. Count
        PROVE  Chances(h)' <= Bit(~ToSend(h)') + resent[h] + again[h]
    <3>1. Chances(h) <= Bit(~ToSend(h)) + resent[h] + again[h] BY DEF OnceInv
    <3> QED BY <1>d, <2>2, <2>3, <3>1, ChancesType DEF Bit
  <2> QED BY <1>c, <1>d, <2>1, <2>4 DEF OnceInv
<1>5. ASSUME NEW i \in 1 .. Count,
             \/ Recover(i)
             \/ \E r \in Reports : Report(i, r) \/ ReportUnheard(i, r) \/ ReportAgain(i, r)
      PROVE  OnceInv'
  <2>1. pipeVars' = pipeVars /\ resent' = resent /\ takes' = takes
    BY <1>5 DEF Recover, Report, ReportUnheard, ReportAgain
  <2>2. \/ /\ again' = [again EXCEPT ![i] = @ + 1]
           /\ \/ ready' = ready \cup {i} /\ delayed' = delayed
              \/ ready' = ready /\ delayed' = delayed \cup {i}
        \/ again' = again /\ ready' = ready /\ delayed' = delayed
    BY <1>5 DEF Recover, Report, ReportUnheard, ReportAgain, Executed
  <2>3. \A h \in 1 .. Count : ToSend(h)' <=> ToSend(h) BY <1>c, <2>1 DEF ToSend, pipeVars
  <2>4. again' \in [1 .. Count -> Nat] BY <1>d, <2>2
  <2>5. ASSUME NEW h \in 1 .. Count
        PROVE  Chances(h)' <= Bit(~ToSend(h)') + resent[h] + again'[h]
    <3>1. Chances(h) <= Bit(~ToSend(h)) + resent[h] + again[h] BY DEF OnceInv
    <3>2. Chances(h)' - Chances(h) <= again'[h] - again[h] /\ Chances(h)' \in Nat
      <4>1. takes[h] \in Nat /\ again[h] \in Nat /\ takes'[h] = takes[h] BY <1>d, <2>1
      <4>2. CASE again' = again /\ ready' = ready /\ delayed' = delayed
        BY <2>1, <4>1, <4>2 DEF Chances, Bit
      <4>3. CASE /\ again' = [again EXCEPT ![i] = @ + 1]
                 /\ ready' = ready \cup {i} /\ delayed' = delayed
        <5>1. again'[h] - again[h] = IF h = i THEN 1 ELSE 0 BY <1>d, <4>1, <4>3
        <5> QED BY <4>1, <4>3, <5>1 DEF Chances, Bit
      <4>4. CASE /\ again' = [again EXCEPT ![i] = @ + 1]
                 /\ ready' = ready /\ delayed' = delayed \cup {i}
        <5>1. again'[h] - again[h] = IF h = i THEN 1 ELSE 0 BY <1>d, <4>1, <4>4
        <5> QED BY <4>1, <4>4, <5>1 DEF Chances, Bit
      <4> QED BY <2>2, <4>2, <4>3, <4>4
    <3> QED BY <1>d, <2>3, <2>4, <3>1, <3>2, ChancesType DEF Bit
  <2> QED BY <1>c, <1>d, <2>1, <2>4, <2>5 DEF OnceInv
<1>6. CASE \/ \E i \in 1 .. Count : Drop(i) \/ SetResult(i) \/ LoseResult(i) \/ Wait(i)
           \/ GetResult \/ Tick \/ UNCHANGED vars
  <2>1. UNCHANGED <<pipeVars, ready, delayed, takes, resent, again>>
    BY <1>6 DEF Drop, SetResult, LoseResult, Wait, GetResult, Tick, vars, histVars, queueVars
  <2>2. \A i \in 1 .. Count : Chances(i)' = Chances(i) /\ (ToSend(i)' <=> ToSend(i))
    BY <1>c, <2>1 DEF Chances, ToSend, pipeVars
  <2> QED BY <1>c, <1>d, <2>1, <2>2 DEF OnceInv, Bit
<1> QED BY <1>1, <1>2, <1>3, <1>4, <1>5, <1>6 DEF Next

\* What becomes ready is due: stored without a delay, promoted, or taken before.
LEMMA TimeStep == IInv /\ TimeInv /\ [Next]_vars => TimeInv'
<1> SUFFICES ASSUME IInv, TimeInv, [Next]_vars PROVE TimeInv' OBVIOUS
<1>b. call' = call
  BY DEF Next, vars, Build, Load, Exec, ExecError, Broken, Reply, Promote, Take, Report,
         ReportUnheard, ReportAgain, Drop, Recover, SetResult, LoseResult, Wait, GetResult, Tick
<1>d. call \in Calls /\ call.delay \in Nat BY SubmitAssumption DEF IInv, Basic
<1>1. CASE Exec
  <2>1. /\ early' = early /\ elapsed' = elapsed /\ active' = active
        /\ \/ ready' = ready \cup {next} /\ ~Scheduled(next)
           \/ ready' = ready
    BY <1>1 DEF Exec, Put, histVars, workVars
  <2>2. call.path \notin Workflow /\ ~Scheduled(next) => elapsed >= call.delay
    BY <1>d, Due DEF Scheduled, TimeInv
  <2> QED BY <1>b, <2>1, <2>2 DEF TimeInv
<1>2. ASSUME NEW i \in 1 .. Count, Promote(i) PROVE TimeInv'
  <2>1. /\ histVars' = histVars /\ elapsed' = elapsed /\ elapsed >= DueOf(i)
        /\ ready' = ready \cup {i} /\ active' = active
    BY <1>2 DEF Promote, workVars
  <2> QED BY <1>b, <1>d, <2>1, Due DEF TimeInv, histVars
<1>3. ASSUME NEW i \in 1 .. Count, Take(i) PROVE TimeInv'
  <2>1. /\ elapsed' = elapsed /\ i \in ready /\ ready' = ready \ {i} /\ active' = active \cup {i}
        /\ early' = IF elapsed < call.delay THEN early \cup {i} ELSE early
    BY <1>3 DEF Take
  <2> QED BY <1>b, <1>d, <2>1 DEF TimeInv
<1>4. ASSUME NEW i \in 1 .. Count, Recover(i) PROVE TimeInv'
  <2>1. /\ elapsed' = elapsed /\ early' = early /\ i \in active
        /\ ready' = ready \cup {i} /\ active' = active \ {i}
    BY <1>4 DEF Recover
  <2> QED BY <1>b, <2>1 DEF TimeInv
<1>5. CASE \/ Build \/ Load \/ ExecError \/ Broken \/ Reply \/ GetResult \/ Tick \/ UNCHANGED vars
           \/ \E i \in 1 .. Count : Drop(i) \/ SetResult(i) \/ LoseResult(i) \/ Wait(i)
           \/ \E i \in 1 .. Count, r \in Reports :
                 Report(i, r) \/ ReportUnheard(i, r) \/ ReportAgain(i, r)
  <2>1. ready' = ready /\ active' \subseteq active /\ early' = early
    BY <1>5 DEF Build, Load, ExecError, Broken, Reply, GetResult, Tick, Drop, SetResult, LoseResult,
                Wait, Report, ReportUnheard, ReportAgain, Executed, vars, queueVars, workVars, histVars
  <2>2. elapsed' \in {elapsed, elapsed + 1}
    BY <1>5 DEF Build, Load, ExecError, Broken, Reply, GetResult, Tick, Drop, SetResult, LoseResult,
                Wait, Report, ReportUnheard, ReportAgain, vars
  <2> QED BY <1>b, <1>d, <2>1, <2>2 DEF TimeInv
<1> QED BY <1>1, <1>2, <1>3, <1>4, <1>5 DEF Next

\* No task is taken more often than it was stored, stored again by a repeated pipeline,
\* handed back by a server or recovered; and none is taken before the time the call
\* asked for, but for those of a workflow, which ignores it.
THEOREM TakenForAReason == Spec => []OnceAndInTime
<1>1. ASSUME IInv, OnceInv, TimeInv PROVE OnceAndInTime
  <2>1. ASSUME NEW i \in 1 .. Count PROVE takes[i] <= 1 + resent[i] + again[i]
    <3>1. Chances(i) <= Bit(~ToSend(i)) + resent[i] + again[i] BY <1>1 DEF OnceInv
    <3>2. takes[i] <= Chances(i) /\ Bit(~ToSend(i)) \in {0, 1} /\ takes[i] \in Nat
      BY <1>1 DEF Chances, Bit, IInv, Basic
    <3>3. resent[i] \in Nat /\ again[i] \in Nat BY <1>1 DEF OnceInv
    <3> QED BY <1>1, <3>1, <3>2, <3>3, ChancesType
  <2> QED BY <1>1, <2>1 DEF TimeInv, OnceAndInTime
<1> QED BY <1>1, Inductive, OnceInit, OnceStep, TimeStep, PTL DEF Spec

-----------------------------------------------------------------------------
\* Whatever is said of a task is said of one that was stored.
HistoryInv ==
    /\ stored \in SUBSET (1 .. Count)
    /\ elapsed \in 0 .. call.delay
    /\ early \subseteq stored /\ ended \subseteq stored
    /\ owed \subseteq stored /\ result \subseteq stored /\ lost \subseteq stored
    /\ waiter \in {"idle", "polling", "got", "error"}
    /\ target \in 1 .. Count
    /\ faults \in 0 .. call.maxFaults

LEMMA InitHistory == Init => HistoryInv
<1> SUFFICES ASSUME Init PROVE HistoryInv OBVIOUS
<1>1. 1 \in 1 .. Count BY Sizes DEF Init
<1>2. 0 \in 0 .. call.delay /\ 0 \in 0 .. call.maxFaults BY SubmitAssumption DEF Init
<1> QED BY <1>1, <1>2 DEF Init, HistoryInv

\* Every step keeps it.
LEMMA StepHistory == IInv /\ HistoryInv /\ [Next]_vars => HistoryInv'
<1> SUFFICES ASSUME IInv, HistoryInv, [Next]_vars PROVE HistoryInv' OBVIOUS
<1>a. /\ Count \in Nat /\ Batch \in 1 .. Count /\ from \in Nat /\ from >= 1 /\ next \in Nat
      /\ from <= next /\ ChunkEnd \in Int /\ ChunkEnd <= Batch + 1
  <2>1. Count \in Nat /\ Batch \in 1 .. Count BY Sizes DEF IInv, Basic
  <2>2. from \in Nat /\ from <= Batch /\ from >= 1 BY <2>1 DEF IInv, PipeInv
  <2>3. ChunkEnd \in Int /\ ChunkEnd <= Batch + 1 BY <2>2, Sizes DEF IInv, Basic
  <2> QED BY <2>1, <2>2, <2>3 DEF IInv, PipeInv
<1>b. call' = call
  BY DEF Next, vars, Build, Load, Exec, ExecError, Broken, Reply, Promote, Take, Report,
         ReportUnheard, ReportAgain, Drop, Recover, SetResult, LoseResult, Wait, GetResult, Tick
<1>c. Count' = Count BY <1>b, Frame
<1>d. call.maxFaults \in Nat /\ call.delay \in Nat
  BY SubmitAssumption DEF IInv, Basic
<1>e. faults' \in 0 .. call.maxFaults
  <2>1. faults' = faults \/ (faults < call.maxFaults /\ faults' = faults + 1)
    BY DEF Next, vars, Build, Load, Exec, ExecError, Broken, Reply, Promote, Take, Report,
           ReportUnheard, ReportAgain, Drop, Recover, SetResult, LoseResult, Wait, GetResult, Tick,
           Fault
  <2> QED BY <1>d, <2>1 DEF HistoryInv
<1>1. CASE Build \/ Load \/ ExecError \/ Broken \/ Reply
  <2>1. UNCHANGED <<queueVars, elapsed, resultVars, early, ended, lost>>
    BY <1>1 DEF Build, Load, ExecError, Broken, Reply, histVars
  <2> QED BY <1>b, <1>c, <1>e, <2>1 DEF HistoryInv, queueVars, resultVars
<1>2. CASE Exec
  <2>1. stored' = stored \cup {next} /\ next < ChunkEnd /\ UNCHANGED <<elapsed, resultVars, histVars>>
    BY <1>2 DEF Exec, Put
  <2>2. next \in 1 .. Count BY <1>a, <2>1
  <2> QED BY <1>b, <1>c, <1>e, <2>1, <2>2 DEF HistoryInv, resultVars, histVars
<1>3. ASSUME NEW i \in 1 .. Count, Promote(i) \/ Take(i) \/ Drop(i) \/ Recover(i) PROVE HistoryInv'
  <2>1. /\ UNCHANGED <<stored, elapsed, lost, ended, resultVars>>
        /\ early' \subseteq early \cup {i} /\ (early' = early \/ i \in ready)
    BY <1>3 DEF Promote, Take, Drop, Recover, queueVars, histVars
  <2>2. i \in ready => i \in stored BY DEF IInv, RunsInv
  <2> QED BY <1>b, <1>c, <1>e, <2>1, <2>2 DEF HistoryInv, resultVars
<1>4. ASSUME NEW i \in 1 .. Count, NEW r \in Reports,
             Report(i, r) \/ ReportUnheard(i, r) \/ ReportAgain(i, r)
      PROVE  HistoryInv'
  <2>1. /\ UNCHANGED <<stored, elapsed, early, lost, result, waiter, target>>
        /\ ended' \subseteq ended \cup {i} /\ owed' \subseteq owed \cup {i}
    BY <1>4 DEF Report, ReportUnheard, ReportAgain, Executed, Told, resultVars
  <2>2. i \in stored BY <1>4 DEF Report, ReportUnheard, ReportAgain, IInv, Basic, RunsInv
  <2> QED BY <1>b, <1>c, <1>e, <2>1, <2>2 DEF HistoryInv
<1>5. ASSUME NEW i \in 1 .. Count, SetResult(i) \/ LoseResult(i) PROVE HistoryInv'
  <2>1. /\ UNCHANGED <<stored, elapsed, early, ended, waiter, target>>
        /\ i \in owed \cup result
        /\ owed' \subseteq owed /\ result' \subseteq result \cup {i} /\ lost' \subseteq lost \cup {i}
    BY <1>5 DEF SetResult, LoseResult, queueVars, histVars
  <2> QED BY <1>b, <1>c, <1>e, <2>1 DEF HistoryInv
<1>6. ASSUME NEW i \in 1 .. Count, Wait(i) PROVE HistoryInv'
  BY <1>6, <1>b, <1>c, <1>e DEF Wait, HistoryInv, queueVars, histVars
<1>7. CASE GetResult BY <1>7, <1>b, <1>c, <1>e DEF GetResult, HistoryInv, queueVars, histVars
<1>8. CASE Tick
  <2>1. elapsed' \in 0 .. call.delay BY <1>8, <1>d DEF Tick, HistoryInv
  <2> QED BY <1>8, <1>b, <1>c, <1>e, <2>1 DEF Tick, HistoryInv, queueVars, resultVars, histVars
<1>9. CASE UNCHANGED vars
  BY <1>9, <1>b, <1>c, <1>e DEF vars, HistoryInv, queueVars, resultVars, histVars
<1> QED BY <1>1, <1>2, <1>3, <1>4, <1>5, <1>6, <1>7, <1>8, <1>9 DEF Next

\* Every state of a submission is well typed: the pipeline stays within the tasks of the
\* call, and a task that is queued, was taken or reported, or has a result was stored.
THEOREM SubmitTypes == Spec => []TypeOK
<1>1. ASSUME IInv, HistoryInv, OnceInv PROVE TypeOK
  <2>1. Count \in Nat /\ Batch \in 1 .. Count BY <1>1, Sizes DEF IInv, Basic
  <2>2. from \in Nat /\ from >= 1 /\ from <= Batch BY <1>1, <2>1 DEF IInv, PipeInv
  <2>3. ChunkEnd \in Int /\ ChunkEnd <= Batch + 1 BY <1>1, <2>2, Sizes DEF IInv, Basic
  <2>4. from \in 1 .. Count /\ next \in from .. Count + 1
    BY <1>1, <2>1, <2>2, <2>3 DEF IInv, PipeInv
  <2> QED BY <1>1, <2>4 DEF IInv, Basic, RunsInv, HistoryInv, OnceInv, TypeOK
<1>2. IInv /\ HistoryInv /\ [Next]_vars => HistoryInv' BY StepHistory
<1> QED BY <1>1, <1>2, Inductive, InitHistory, OnceInit, OnceStep, PTL DEF Spec
=============================================================================
