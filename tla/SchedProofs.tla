---------------------------- MODULE SchedProofs ----------------------------
(***************************************************************************)
(* Proofs about Sched for every size of the process table and of the task  *)
(* table: without CPU exceptions in user code, no hand-over of the CPU     *)
(* restores a stale frame, no context is lost, and a parent in wait4 has a *)
(* child that can still exit.                                              *)
(***************************************************************************)
EXTENDS Sched, TLAPS

\* While a process is on the CPU it is the current one and nothing is kept
\* aside; while a kernel task is, current_task_idx names it.
CpuInv ==
  /\ mainReq = 0
  /\ cpu \in ProcSlots => cpu = cur /\ uframe = NoFrame /\ mainpc = NoProc
  /\ cpu \in Tasks => tidx = cpu
  /\ cpu \in Tasks \ {0} => cur = NoProc
  /\ cpu = 0 /\ cur # NoProc => IsLatest(uframe, cur) /\ mainpc = NoProc
  /\ cur = NoProc => uframe = NoFrame

\* Frames of processes: the conjunct of NothingLost about parked_rsp, and what
\* the launch path holds.
ParkInv ==
  /\ \A p \in ProcSlots : state[p] = "BLOCKED" => IsLatest(parked[p], p)
  /\ \A p \in ProcSlots : state[p] = "READY" =>
       \/ IsLatest(parked[p], p)
       \/ parked[p] = NoFrame /\ mainpc = p
  /\ mainpc # NoProc => /\ cur = NoProc
                   /\ state[mainpc] = "READY"
                   /\ parked[mainpc] = NoFrame
                   /\ \A p \in ProcSlots : p # mainpc =>
                        state[p] \in {"UNUSED", "ZOMBIE"}

\* Frames of kernel tasks; the main task's carries its program counter.
TaskInv ==
  /\ \A i \in Tasks : cpu = i \/ IsLatest(trsp[i], i)
  /\ cpu # 0 => trsp[0].pc = mainpc

\* A process is never its own child.
PidInv ==
  /\ \A p \in ProcSlots : pid[p] < nextPid
  /\ \A p \in ProcSlots : state[p] # "UNUSED" /\ ~thr[p] => parent[p] < pid[p]

\* What a hand-over must re-establish: everything about frames ...
FrameInv == RunningIsCurrent /\ ResumesLatest /\ CpuInv /\ ParkInv /\ TaskInv

\* ... and the types of the variables it assigns.
FrameTypes == /\ cpu \in Ctx /\ resumed \in Frame
              /\ mainpc \in ProcSlots \cup {NoProc}
              /\ trsp \in [Tasks -> Frame] /\ uframe \in Frame
              /\ parked \in [ProcSlots -> Frame]

\* The inductive invariant.
IInv == TypeOK /\ FrameInv /\ PidInv

\* The prime-free facts every step of the proof starts from.
LEMMA Contexts ==
  /\ Ctx = Tasks \cup ProcSlots
  /\ \A i \in Tasks : i \notin ProcSlots /\ i # NoCtx
  /\ \A p \in ProcSlots : p \notin Tasks /\ p # NoCtx /\ p # NoProc /\ p # 0
  /\ 0 \in Tasks /\ NoProc \notin ProcSlots /\ NoCtx \notin Ctx
  /\ NoFrame \in Frame /\ NoFrame.ctx = NoCtx
BY SchedAssumption DEF SchedAssumption, Ctx, Tasks, ProcSlots, NoCtx, NoProc,
   NoFrame, Frame

\* A frame stays a frame when its context gets the CPU, and a frame of another
\* context keeps its age.
LEMMA AgeType ==
  ASSUME NEW f \in Frame, NEW c \in Ctx
  PROVE  /\ Age(f, c) \in Frame
         /\ Age(f, c).ctx = f.ctx /\ Age(f, c).pc = f.pc
         /\ f.ctx # c => Age(f, c) = f
         /\ f = NoFrame => Age(f, c) = NoFrame
BY Contexts, Zenon DEF Age, Frame, NoFrame

\* What the restoring of frame f leaves in the frame tables.
LEMMA ResumeEffect ==
  ASSUME NEW f \in Frame, f.ctx \in Ctx,
         NEW t \in [Tasks -> Frame], NEW u \in Frame,
         NEW k \in [ProcSlots -> Frame], mainpc \in ProcSlots \cup {NoProc},
         Resume(f, t, u, k)
  PROVE  /\ cpu' = f.ctx /\ resumed' = f
         /\ mainpc' = (IF f.ctx = 0 THEN f.pc ELSE mainpc)
         /\ mainpc' \in ProcSlots \cup {NoProc}
         /\ trsp' \in [Tasks -> Frame]
         /\ uframe' \in Frame
         /\ parked' \in [ProcSlots -> Frame]
         /\ u = NoFrame => uframe' = NoFrame
         /\ \A i \in Tasks : trsp'[i].pc = t[i].pc
         /\ \A i \in Tasks : t[i].ctx # f.ctx => trsp'[i] = t[i]
         /\ u.ctx # f.ctx => uframe' = u
         /\ \A p \in ProcSlots : k[p].ctx # f.ctx => parked'[p] = k[p]
         /\ \A p \in ProcSlots : k[p] = NoFrame => parked'[p] = NoFrame
<1>1. \A g \in Frame : /\ Age(g, f.ctx) \in Frame
                       /\ Age(g, f.ctx).pc = g.pc
                       /\ g.ctx # f.ctx => Age(g, f.ctx) = g
                       /\ g = NoFrame => Age(g, f.ctx) = NoFrame
  BY AgeType, Zenon
<1>2. f.pc \in ProcSlots \cup {NoProc}
  BY Zenon DEF Frame
<1>. QED
  BY <1>1, <1>2, Zenon DEF Resume

\* A hand-over to frame f re-establishes every frame invariant, provided f is
\* the latest state of its context and the handler left the latest frame of
\* every other context where it belongs.
LEMMA Handover ==
  ASSUME TypeOK,
         NEW f \in Frame, f.ctx \in Ctx, f.age = "latest",
         NEW t \in [Tasks -> Frame], NEW u \in Frame,
         NEW k \in [ProcSlots -> Frame],
         Resume(f, t, u, k),
         cur' \in ProcSlots \cup {NoProc}, state' \in [ProcSlots -> States],
         mainReq' = 0,
         \A p \in ProcSlots : state'[p] = "RUNNING" <=> cur' = p,
         \A i \in Tasks : i = f.ctx \/ IsLatest(t[i], i),
         \A p \in ProcSlots : state'[p] = "BLOCKED" =>
             p # f.ctx /\ IsLatest(k[p], p),
         \A p \in ProcSlots : state'[p] = "READY" =>
             /\ p # f.ctx
             /\ IsLatest(k[p], p) \/ (k[p] = NoFrame /\ mainpc' = p),
         f.ctx \in ProcSlots => cur' = f.ctx /\ u = NoFrame /\ mainpc = NoProc,
         f.ctx \in Tasks => tidx' = f.ctx,
         f.ctx \in Tasks \ {0} => cur' = NoProc,
         f.ctx = 0 /\ cur' # NoProc => IsLatest(u, cur') /\ f.pc = NoProc,
         cur' = NoProc => u = NoFrame,
         f.ctx # 0 => t[0].pc = mainpc,
         mainpc' # NoProc => /\ cur' = NoProc
                             /\ state'[mainpc'] = "READY"
                             /\ k[mainpc'] = NoFrame
                             /\ \A p \in ProcSlots : p # mainpc' =>
                                  state'[p] \in {"UNUSED", "ZOMBIE"}
  PROVE  FrameInv' /\ FrameTypes'
<1>1. mainpc \in ProcSlots \cup {NoProc}
  BY Zenon DEF TypeOK
<1>2. /\ cpu' = f.ctx /\ resumed' = f
      /\ mainpc' = (IF f.ctx = 0 THEN f.pc ELSE mainpc)
      /\ mainpc' \in ProcSlots \cup {NoProc}
      /\ trsp' \in [Tasks -> Frame]
      /\ uframe' \in Frame
      /\ parked' \in [ProcSlots -> Frame]
      /\ u = NoFrame => uframe' = NoFrame
      /\ \A i \in Tasks : trsp'[i].pc = t[i].pc
      /\ \A i \in Tasks : t[i].ctx # f.ctx => trsp'[i] = t[i]
      /\ u.ctx # f.ctx => uframe' = u
      /\ \A p \in ProcSlots : k[p].ctx # f.ctx => parked'[p] = k[p]
      /\ \A p \in ProcSlots : k[p] = NoFrame => parked'[p] = NoFrame
  BY <1>1, ResumeEffect, SMTT(30)
<1>3. RunningIsCurrent' /\ ResumesLatest'
  BY <1>2 DEF RunningIsCurrent, ResumesLatest
<1>4. CpuInv'
  BY <1>2, Contexts DEF CpuInv, IsLatest
<1>5. ParkInv'
  BY <1>2 DEF ParkInv, IsLatest
<1>6. TaskInv'
  BY <1>2, Contexts DEF TaskInv, IsLatest
<1>. QED
  BY <1>2, <1>3, <1>4, <1>5, <1>6, Zenon DEF FrameInv, FrameTypes

\* The case of a hand-over to a process.
LEMMA ToProcess ==
  ASSUME TypeOK, mainpc = NoProc,
         NEW q \in ProcSlots, NEW f \in Frame, IsLatest(f, q),
         NEW t \in [Tasks -> Frame], NEW k \in [ProcSlots -> Frame],
         Resume(f, t, NoFrame, k),
         cur' = q, mainReq' = 0, state' \in [ProcSlots -> States],
         \A p \in ProcSlots : state'[p] = "RUNNING" <=> p = q,
         \A i \in Tasks : IsLatest(t[i], i), t[0].pc = NoProc,
         \A p \in ProcSlots : p # q /\ state'[p] \in {"READY", "BLOCKED"} =>
             IsLatest(k[p], p)
  PROVE  FrameInv' /\ FrameTypes'
<1>1. f.ctx = q /\ f.ctx \in Ctx /\ f.age = "latest" /\ q \notin Tasks /\ q # 0
  BY Contexts, Zenon DEF IsLatest
<1>2. mainpc' = NoProc
  BY <1>1, Zenon DEF Resume
<1>3. \A p \in ProcSlots : /\ state'[p] = "BLOCKED" => p # q /\ IsLatest(k[p], p)
                       /\ state'[p] = "READY" => p # q /\ IsLatest(k[p], p)
  BY Zenon
<1>4. cur' \in ProcSlots \cup {NoProc} /\ cur' # NoProc /\ NoFrame \in Frame
  BY Contexts, Zenon
<1>. QED
  BY <1>1, <1>2, <1>3, <1>4, Handover

\* The case of a hand-over to the main task, the current process (if any)
\* kept aside in u.
LEMMA ToMain ==
  ASSUME TypeOK, trsp[0].pc = NoProc,
         \A i \in Tasks : IsLatest(trsp[i], i),
         NEW u \in Frame, NEW k \in [ProcSlots -> Frame],
         Resume(trsp[0], trsp, u, k),
         cur' \in ProcSlots \cup {NoProc}, mainReq' = 0, tidx' = 0,
         cur' = NoProc => u = NoFrame,
         cur' # NoProc => IsLatest(u, cur'),
         state' \in [ProcSlots -> States],
         \A p \in ProcSlots : state'[p] = "RUNNING" <=> p = cur',
         \A p \in ProcSlots : state'[p] \in {"READY", "BLOCKED"} =>
             IsLatest(k[p], p)
  PROVE  FrameInv' /\ FrameTypes'
<1>1. /\ trsp \in [Tasks -> Frame] /\ trsp[0] \in Frame
      /\ trsp[0].ctx = 0 /\ trsp[0].age = "latest" /\ 0 \in Ctx
      /\ 0 \in Tasks /\ 0 \notin ProcSlots
  BY Contexts DEF IsLatest, TypeOK
<1>2. mainpc' = NoProc
  BY <1>1, Zenon DEF Resume
<1>3. \A p \in ProcSlots :
        /\ state'[p] = "BLOCKED" => p # 0 /\ IsLatest(k[p], p)
        /\ state'[p] = "READY" => p # 0 /\ IsLatest(k[p], p)
  BY <1>1, Zenon
<1>. QED
  BY <1>1, <1>2, <1>3, Handover

\* What the invariant says while a process is on the CPU.
LEMMA UserRunning ==
  ASSUME IInv, cpu \in ProcSlots
  PROVE  /\ cur = cpu /\ uframe = NoFrame /\ mainpc = NoProc /\ mainReq = 0
         /\ \A p \in ProcSlots : state[p] = "RUNNING" <=> p = cpu
         /\ \A p \in ProcSlots : state[p] \in {"READY", "BLOCKED"} =>
              IsLatest(parked[p], p)
         /\ \A i \in Tasks : IsLatest(trsp[i], i)
         /\ trsp[0].pc = NoProc /\ trsp[0] \in Frame
         /\ Save \in Frame /\ IsLatest(Save, cpu)
<1>1. /\ cur = cpu /\ uframe = NoFrame /\ mainpc = NoProc /\ mainReq = 0
      /\ \A p \in ProcSlots : state[p] = "RUNNING" <=> p = cpu
  BY Zenon DEF IInv, FrameInv, CpuInv, RunningIsCurrent
<1>2. \A p \in ProcSlots : state[p] \in {"READY", "BLOCKED"} =>
        IsLatest(parked[p], p)
  BY <1>1, Contexts, Zenon DEF IInv, FrameInv, ParkInv
<1>3. \A i \in Tasks : IsLatest(trsp[i], i)
  BY Contexts, Zenon DEF IInv, FrameInv, TaskInv
<1>4. trsp[0].pc = NoProc /\ trsp[0] \in Frame
  BY <1>1, Contexts, Zenon DEF IInv, FrameInv, TaskInv, TypeOK
<1>5. Save \in Frame /\ IsLatest(Save, cpu)
  BY Contexts, Zenon DEF Save, Frame, IsLatest
<1>. QED
  BY <1>1, <1>2, <1>3, <1>4, <1>5, Zenon

\* Waking blocked processes changes no other state.
LEMMA ReadyEffect ==
  ASSUME NEW st \in [ProcSlots -> States], NEW W \in SUBSET ProcSlots
  PROVE  /\ Ready(st, W) \in [ProcSlots -> States]
         /\ \A p \in ProcSlots : Ready(st, W)[p] =
              IF p \in W THEN "READY" ELSE st[p]
BY Zenon DEF Ready, States

\* The tick that takes the CPU from the current process to the main task.
LEMMA TickToMainStep ==
  ASSUME IInv, NEW W \in SUBSET Queued(state), TickToMain(W)
  PROVE  IInv'
<1>1. /\ cur' = cur /\ mainReq' = 0 /\ tidx' = 0 /\ UNCHANGED table
      /\ cur # NoProc /\ uframe = NoFrame /\ state' = Ready(state, W)
      /\ Resume(trsp[0], trsp, Save, parked)
  BY Zenon DEF TickToMain
<1>2. TypeOK /\ cur \in ProcSlots /\ PidInv
  BY <1>1 DEF IInv, TypeOK
<1>3. cpu \in ProcSlots
  BY <1>1, <1>2, Contexts, Zenon DEF IInv, FrameInv, CpuInv, IsLatest, TypeOK
<1>4. W \in SUBSET ProcSlots /\ \A p \in W : state[p] = "BLOCKED"
  BY Zenon DEF Queued
<1>5. /\ state' \in [ProcSlots -> States]
      /\ \A p \in ProcSlots : state'[p] = IF p \in W THEN "READY" ELSE state[p]
  BY <1>1, <1>2, <1>4, ReadyEffect DEF TypeOK
<1>6. trsp \in [Tasks -> Frame] /\ parked \in [ProcSlots -> Frame]
  BY <1>2, Zenon DEF TypeOK
<1>8. FrameInv' /\ FrameTypes'
  BY <1>1, <1>2, <1>3, <1>4, <1>5, <1>6, UserRunning, ToMain
<1>9. TypeOK'
  BY <1>1, <1>2, <1>5, <1>8, Contexts, Zenon DEF TypeOK, FrameTypes, table
<1>10. PidInv'
  BY <1>1, <1>2, <1>4, <1>5, Zenon DEF PidInv, table
<1>. QED
  BY <1>8, <1>9, <1>10, Zenon DEF IInv

\* The tick that takes the CPU from the main task back to a process.
LEMMA TickToUserStep ==
  ASSUME IInv, NEW W \in SUBSET Queued(state), TickToUser(W)
  PROVE  IInv'
<1>. DEFINE st == Ready(state, W)
            t == [trsp EXCEPT ![0] = Save]
<1>1. /\ mainReq' = 0 /\ tidx' = tidx /\ UNCHANGED table
      /\ cur # NoProc /\ uframe # NoFrame /\ state[cur] = "RUNNING"
  BY Zenon DEF TickToUser
<1>2. TypeOK /\ cur \in ProcSlots /\ PidInv
  BY <1>1, Zenon DEF IInv, TypeOK
<1>3. cpu = 0 /\ IsLatest(uframe, cur) /\ mainpc = NoProc /\ tidx = 0
  BY <1>1, <1>2, Contexts DEF IInv, FrameInv, CpuInv, TypeOK
<1>4. W \in SUBSET ProcSlots /\ \A p \in W : state[p] = "BLOCKED"
  BY Zenon DEF Queued
<1>5. /\ st \in [ProcSlots -> States]
      /\ \A p \in ProcSlots : st[p] = IF p \in W THEN "READY" ELSE state[p]
  BY <1>2, <1>4, ReadyEffect DEF TypeOK
<1>6. /\ trsp \in [Tasks -> Frame] /\ parked \in [ProcSlots -> Frame]
      /\ uframe \in Frame
  BY <1>2, Zenon DEF TypeOK
<1>7. Save \in Frame /\ IsLatest(Save, 0) /\ Save.pc = NoProc
  BY <1>3, Contexts, Zenon DEF Save, Frame, IsLatest
<1>8. /\ t \in [Tasks -> Frame] /\ t[0].pc = NoProc
      /\ \A i \in Tasks : IsLatest(t[i], i)
  BY <1>3, <1>6, <1>7, Contexts DEF IInv, FrameInv, TaskInv, IsLatest
<1>9. \A p \in ProcSlots : st[p] \in {"READY", "BLOCKED"} => IsLatest(parked[p], p)
  BY <1>3, <1>4, <1>5, Contexts DEF IInv, FrameInv, ParkInv
<1>10. \A p \in ProcSlots : st[p] = "RUNNING" <=> p = cur
  BY <1>2, <1>4, <1>5, Zenon DEF IInv, FrameInv, RunningIsCurrent
<1>11. PICK q \in ProcSlots \cup {NoProc} :
         /\ Picks(st, cur, q)
         /\ IF q # NoProc
            THEN /\ state' = [st EXCEPT ![cur] = "READY", ![q] = "RUNNING"]
                 /\ cur' = q
                 /\ Resume(parked[q], t, NoFrame, [parked EXCEPT ![cur] = uframe])
            ELSE /\ state' = st
                 /\ cur' = cur
                 /\ Resume(uframe, t, NoFrame, parked)
  BY Zenon DEF TickToUser
<1>12. /\ FrameInv' /\ FrameTypes'
       /\ state' \in [ProcSlots -> States] /\ cur' \in ProcSlots \cup {NoProc}
       /\ \A p \in ProcSlots : state'[p] # "UNUSED" => state[p] # "UNUSED"
  <2>1. CASE q # NoProc
    <3>. DEFINE k == [parked EXCEPT ![cur] = uframe]
    <3>1. q \in ProcSlots /\ st[q] = "READY" /\ q # cur
      BY <2>1, <1>11 DEF Picks, First
    <3>2. /\ state' = [st EXCEPT ![cur] = "READY", ![q] = "RUNNING"]
          /\ cur' = q
          /\ Resume(parked[q], t, NoFrame, k)
      BY <2>1, <1>11, Zenon
    <3>3. /\ state' \in [ProcSlots -> States]
          /\ \A p \in ProcSlots : state'[p] = IF p = q THEN "RUNNING"
                                ELSE IF p = cur THEN "READY" ELSE st[p]
      BY <3>1, <3>2, <1>2, <1>5, Zenon DEF States
    <3>4. /\ k \in [ProcSlots -> Frame]
          /\ \A p \in ProcSlots : p # q /\ state'[p] \in {"READY", "BLOCKED"} =>
               IsLatest(k[p], p)
      BY <3>1, <3>3, <1>2, <1>3, <1>6, <1>9, Zenon
    <3>5. IsLatest(parked[q], q) /\ parked[q] \in Frame
      BY <3>1, <1>6, <1>9, Zenon
    <3>7. \A p \in ProcSlots : state'[p] = "RUNNING" <=> cur' = p
      BY <3>1, <3>2, <3>3, <1>10, Zenon
    <3>8. \A p \in ProcSlots : state'[p] # "UNUSED" => state[p] # "UNUSED"
      BY <3>1, <3>3, <1>1, <1>4, <1>5, Zenon
    <3>. HIDE DEF k, t, st
    <3>. QED
      BY ZenonT(30), <3>1, <3>2, <3>3, <3>4, <3>5, <3>7, <3>8, <1>1, <1>2, <1>3, <1>8,
         ToProcess
  <2>2. CASE q = NoProc
    <3>1. state' = st /\ cur' = cur /\ Resume(uframe, t, NoFrame, parked)
      BY <2>2, <1>11, Zenon
    <3>3. \A p \in ProcSlots : state'[p] # "UNUSED" => state[p] # "UNUSED"
      BY <3>1, <1>4, <1>5, Zenon
    <3>. HIDE DEF t, st
    <3>. QED
      BY <3>1, <3>3, <1>1, <1>2, <1>3, <1>5, <1>6, <1>8, <1>9, <1>10,
         ToProcess
  <2>. QED
    BY <2>1, <2>2, Zenon
<1>13. TypeOK'
  BY <1>1, <1>2, <1>12, Contexts, Zenon DEF TypeOK, FrameTypes, table
<1>14. PidInv'
  BY <1>1, <1>2, <1>12, Zenon DEF PidInv, table
<1>. QED
  BY <1>12, <1>13, <1>14, Zenon DEF IInv

\* The tick with no current process: a woken process runs, or the next task.
LEMMA TickKernelStep ==
  ASSUME IInv, NEW W \in SUBSET Queued(state), TickKernel(W)
  PROVE  IInv'
<1>. DEFINE st == Ready(state, W)
            t == [trsp EXCEPT ![tidx] = Save]
            next == (tidx + 1) % NTask
<1>1. /\ mainReq' = 0 /\ UNCHANGED table
      /\ ~(cur # NoProc /\ state[cur] = "RUNNING")
  BY Zenon DEF TickKernel
<1>2. TypeOK /\ PidInv /\ cur = NoProc
  BY <1>1, Zenon DEF IInv, FrameInv, TypeOK, RunningIsCurrent
<1>3. cpu \in Tasks /\ tidx = cpu /\ uframe = NoFrame
  BY <1>2, Contexts, Zenon DEF IInv, FrameInv, CpuInv, TypeOK
<1>4. W \in SUBSET ProcSlots /\ \A p \in W : state[p] = "BLOCKED"
  BY Zenon DEF Queued
<1>5. /\ st \in [ProcSlots -> States]
      /\ \A p \in ProcSlots : st[p] = IF p \in W THEN "READY" ELSE state[p]
  BY <1>2, <1>4, ReadyEffect DEF TypeOK
<1>6. /\ trsp \in [Tasks -> Frame] /\ parked \in [ProcSlots -> Frame]
      /\ mainpc \in ProcSlots \cup {NoProc}
  BY <1>2, Zenon DEF TypeOK
<1>7. /\ Save \in Frame /\ IsLatest(Save, cpu)
      /\ Save.pc = IF cpu = 0 THEN mainpc ELSE NoProc
  BY <1>3, <1>6, Contexts, Zenon DEF Save, Frame, IsLatest
<1>8. /\ t \in [Tasks -> Frame] /\ t[0].pc = mainpc
      /\ \A i \in Tasks : IsLatest(t[i], i)
  BY <1>3, <1>6, <1>7, Contexts DEF IInv, FrameInv, TaskInv, IsLatest
<1>9. \A p \in ProcSlots :
        /\ st[p] = "BLOCKED" => IsLatest(parked[p], p)
        /\ st[p] = "READY" => \/ IsLatest(parked[p], p)
                              \/ parked[p] = NoFrame /\ mainpc = p
  BY <1>4, <1>5 DEF IInv, FrameInv, ParkInv
<1>10. mainpc # NoProc => /\ st[mainpc] = "READY" /\ parked[mainpc] = NoFrame
                          /\ \A p \in ProcSlots : p # mainpc =>
                               st[p] \in {"UNUSED", "ZOMBIE"}
  BY <1>4, <1>5, <1>6, Zenon DEF IInv, FrameInv, ParkInv
<1>11. \A p \in ProcSlots : st[p] # "RUNNING"
  BY <1>2, <1>5, Contexts, Zenon DEF IInv, FrameInv, RunningIsCurrent
<1>12. PICK q \in ProcSlots \cup {NoProc} :
         /\ Picks(st, NoProc, q)
         /\ IF q # NoProc
            THEN /\ state' = [st EXCEPT ![q] = "RUNNING"]
                 /\ cur' = q
                 /\ tidx' = tidx
                 /\ Resume(parked[q], t, NoFrame, parked)
            ELSE /\ state' = st
                 /\ cur' = cur
                 /\ tidx' = next
                 /\ Resume(t[next], t, NoFrame, parked)
  BY Zenon DEF TickKernel
<1>13. /\ FrameInv' /\ FrameTypes'
       /\ state' \in [ProcSlots -> States] /\ cur' \in ProcSlots \cup {NoProc}
       /\ tidx' \in Tasks
       /\ \A p \in ProcSlots : state'[p] # "UNUSED" => state[p] # "UNUSED"
  <2>1. CASE q # NoProc
    <3>1. q \in ProcSlots /\ st[q] = "READY" /\ parked[q] # NoFrame
      BY <2>1, <1>12, Zenon DEF Picks, First
    <3>2. /\ state' = [st EXCEPT ![q] = "RUNNING"] /\ cur' = q
          /\ tidx' = tidx /\ Resume(parked[q], t, NoFrame, parked)
      BY <2>1, <1>12, Zenon
    <3>3. mainpc = NoProc
      BY <3>1, <1>6, <1>10, Zenon
    <3>4. IsLatest(parked[q], q) /\ parked[q] \in Frame
      BY <3>1, <1>6, <1>9, Zenon
    <3>5. /\ state' \in [ProcSlots -> States]
          /\ \A p \in ProcSlots : state'[p] = IF p = q THEN "RUNNING" ELSE st[p]
      BY <3>1, <3>2, <1>5, Zenon DEF States
    <3>6. \A p \in ProcSlots : state'[p] = "RUNNING" <=> p = q
      BY <3>5, <1>11, Zenon
    <3>7. \A p \in ProcSlots : p # q /\ state'[p] \in {"READY", "BLOCKED"} =>
            IsLatest(parked[p], p)
      BY <3>3, <3>5, <1>9, Contexts, Zenon
    <3>8. \A p \in ProcSlots : state'[p] # "UNUSED" => state[p] # "UNUSED"
      BY <3>1, <3>5, <1>4, <1>5, Zenon
    <3>. HIDE DEF t, st
    <3>. QED
      BY <3>1, <3>2, <3>3, <3>4, <3>5, <3>6, <3>7, <3>8, <1>1, <1>2, <1>3,
         <1>6, <1>8, ToProcess
  <2>2. CASE q = NoProc
    <3>1. /\ state' = st /\ cur' = NoProc /\ tidx' = next
          /\ Resume(t[next], t, NoFrame, parked)
      BY <2>2, <1>2, <1>12
    <3>2. next \in Tasks
      BY <1>3, SchedAssumption DEF SchedAssumption, Tasks
    <3>3. /\ t[next] \in Frame /\ t[next].ctx = next
          /\ t[next].age = "latest" /\ next \in Ctx /\ next \notin ProcSlots
      BY <3>2, <1>8, Contexts, Zenon DEF IsLatest
    <3>4. next = 0 => t[next].pc = mainpc
      BY <1>8, Zenon
    <3>. HIDE DEF next, t, st
    <3>5. mainpc' = mainpc
      BY <3>1, <3>3, <3>4, Zenon DEF Resume
    <3>6. \A p \in ProcSlots :
            /\ state'[p] = "BLOCKED" => p # next /\ IsLatest(parked[p], p)
            /\ state'[p] = "READY" =>
                 /\ p # next
                 /\ IsLatest(parked[p], p) \/ (parked[p] = NoFrame /\ mainpc' = p)
      BY <3>1, <3>2, <3>5, <1>9, Contexts, Zenon
    <3>7. \A p \in ProcSlots : state'[p] = "RUNNING" <=> cur' = p
      BY ZenonT(30), <3>1, <1>11, Contexts
    <3>8. FrameInv' /\ FrameTypes'
      BY <3>1, <3>2, <3>3, <3>5, <3>6, <3>7, <1>1, <1>2, <1>5, <1>6, <1>8,
         <1>10, Contexts, Handover
    <3>9. \A p \in ProcSlots : state'[p] # "UNUSED" => state[p] # "UNUSED"
      BY <3>1, <1>4, <1>5, Zenon
    <3>. QED
      BY <3>1, <3>2, <3>8, <3>9, <1>5, Zenon
  <2>. QED
    BY <2>1, <2>2, Zenon
<1>14. TypeOK'
  BY ZenonT(30), <1>1, <1>2, <1>13 DEF TypeOK, FrameTypes, table
<1>15. PidInv'
  BY <1>1, <1>2, <1>13, Zenon DEF PidInv, table
<1>. QED
  BY <1>13, <1>14, <1>15, Zenon DEF IInv

\* With no active process there is no current one.
LEMMA Idle ==
  ASSUME IInv, Active(state) = {}
  PROVE  /\ cur = NoProc /\ uframe = NoFrame
         /\ \A p \in ProcSlots : state[p] \in {"UNUSED", "ZOMBIE"}
BY DEF IInv, FrameInv, TypeOK, RunningIsCurrent, CpuInv, Active, States

\* The shell loads a program.
LEMMA LoadProgramStep ==
  ASSUME IInv, LoadProgram
  PROVE  IInv'
<1>. USE Contexts
<1>1. /\ TypeOK /\ PidInv /\ cpu = 0 /\ mainpc = NoProc /\ cur = NoProc
      /\ uframe = NoFrame /\ Reaped = [p \in ProcSlots |-> "UNUSED"]
  BY Idle DEF LoadProgram, IInv, Reaped
<1>a. PICK c \in ProcSlots :
      /\ state' = [Reaped EXCEPT ![c] = "READY"]
      /\ mainpc' = c
      /\ parked' = [p \in ProcSlots |-> IF p = c \/ state[p] = "ZOMBIE"
                                    THEN NoFrame ELSE parked[p]]
      /\ pid' = [pid EXCEPT ![c] = nextPid]
      /\ parent' = [parent EXCEPT ![c] = 0]
      /\ thr' = [thr EXCEPT ![c] = FALSE]
      /\ wpid' = [wpid EXCEPT ![c] = 0]
  BY <1>1, ZenonT(30) DEF LoadProgram
<1>b. /\ UNCHANGED <<cur, uframe, mainReq, trsp, tidx, cpu, resumed>>
      /\ nextPid \in 1..MaxPid /\ nextPid' = nextPid + 1
  BY <1>1 DEF LoadProgram, TypeOK
<1>c. /\ state' = [p \in ProcSlots |-> IF p = c THEN "READY" ELSE "UNUSED"]
      /\ parked'[c] = NoFrame /\ parked' \in [ProcSlots -> Frame]
  BY <1>1, <1>a, Zenon DEF TypeOK
<1>2. /\ UNCHANGED <<cur, uframe, mainReq, trsp, tidx, cpu, resumed>>
      /\ state' = [p \in ProcSlots |-> IF p = c THEN "READY" ELSE "UNUSED"]
      /\ mainpc' = c /\ parked'[c] = NoFrame
      /\ parked' \in [ProcSlots -> Frame]
      /\ nextPid \in 1..MaxPid /\ nextPid' = nextPid + 1
      /\ pid' = [pid EXCEPT ![c] = nextPid]
      /\ parent' = [parent EXCEPT ![c] = 0]
      /\ thr' = [thr EXCEPT ![c] = FALSE]
      /\ wpid' = [wpid EXCEPT ![c] = 0]
  BY <1>a, <1>b, <1>c, ZenonT(30)
<1>3. TypeOK'
  BY <1>1, <1>2, SchedAssumption DEF TypeOK, States, SchedAssumption
<1>4. RunningIsCurrent' /\ ResumesLatest'
  BY <1>1, <1>2, Zenon DEF IInv, FrameInv, RunningIsCurrent, ResumesLatest
<1>5. CpuInv'
  BY <1>1, <1>2, Zenon DEF IInv, FrameInv, CpuInv
<1>6. ParkInv'
  BY <1>1, <1>2, Zenon DEF ParkInv
<1>7. TaskInv'
  BY <1>1, <1>2 DEF IInv, FrameInv, TaskInv
<1>8. PidInv'
  BY <1>1, <1>2 DEF PidInv, TypeOK
<1>. QED
  BY <1>3, <1>4, <1>5, <1>6, <1>7, <1>8, Zenon DEF IInv, FrameInv

\* Loading fails: only zombies are gone.
LEMMA LoadFailsStep ==
  ASSUME IInv, LoadFails
  PROVE  IInv'
<1>. USE Contexts
<1>1. /\ TypeOK /\ PidInv /\ cpu = 0 /\ mainpc = NoProc /\ cur = NoProc
      /\ uframe = NoFrame
  BY Idle, Zenon DEF LoadFails, IInv
<1>2. /\ UNCHANGED <<pid, parent, thr, wpid, cur, uframe, mainReq, trsp, tidx,
                     cpu, mainpc, resumed>>
      /\ state' = [p \in ProcSlots |-> "UNUSED"]
      /\ parked' \in [ProcSlots -> Frame]
      /\ nextPid' \in 1..(MaxPid + 1) /\ nextPid' >= nextPid
  BY <1>1, Idle, SchedAssumption DEF LoadFails, Reaped, TypeOK, SchedAssumption
<1>3. TypeOK'
  BY <1>1, <1>2 DEF TypeOK, States
<1>4. RunningIsCurrent' /\ ResumesLatest'
  BY <1>1, <1>2, Zenon DEF IInv, FrameInv, RunningIsCurrent, ResumesLatest
<1>5. CpuInv'
  BY <1>1, <1>2, Zenon DEF IInv, FrameInv, CpuInv
<1>6. ParkInv'
  BY <1>1, <1>2, Zenon DEF ParkInv
<1>7. TaskInv'
  BY <1>1, <1>2, Zenon DEF IInv, FrameInv, TaskInv
<1>8. PidInv'
  BY <1>1, <1>2, SchedAssumption DEF PidInv, TypeOK, SchedAssumption
<1>. QED
  BY <1>3, <1>4, <1>5, <1>6, <1>7, <1>8, Zenon DEF IInv, FrameInv

\* process_run: the loaded program gets the CPU, main a fresh frame.
LEMMA RunProgramStep ==
  ASSUME IInv, RunProgram
  PROVE  IInv'
<1>. USE Contexts
<1>1. /\ TypeOK /\ PidInv /\ cpu = 0 /\ mainpc \in ProcSlots /\ cur = NoProc
      /\ uframe = NoFrame /\ state[mainpc] = "READY"
      /\ \A p \in ProcSlots : p # mainpc => state[p] \in {"UNUSED", "ZOMBIE"}
  BY DEF RunProgram, IInv, FrameInv, ParkInv, CpuInv, TypeOK
<1>2. /\ UNCHANGED <<table, parked, uframe, mainReq, tidx>>
      /\ mainpc' = NoProc /\ cpu' = mainpc /\ cur' = mainpc
      /\ state' = [state EXCEPT ![mainpc] = "RUNNING"]
      /\ resumed' = [ctx |-> mainpc, age |-> "latest", pc |-> NoProc]
      /\ trsp' = [trsp EXCEPT ![0] =
                    [ctx |-> 0, age |-> "latest", pc |-> NoProc]]
  BY <1>1, Zenon DEF RunProgram
<1>3. TypeOK'
  BY <1>1, <1>2 DEF TypeOK, States, Frame, table
<1>4. RunningIsCurrent' /\ ResumesLatest'
  BY <1>1, <1>2, Zenon DEF RunningIsCurrent, ResumesLatest, TypeOK
<1>5. CpuInv'
  BY <1>1, <1>2, Zenon DEF IInv, FrameInv, CpuInv
<1>6. ParkInv'
  BY <1>1, <1>2 DEF ParkInv, TypeOK
<1>7. TaskInv'
  BY <1>1, <1>2 DEF IInv, FrameInv, TaskInv, IsLatest, TypeOK
<1>8. PidInv'
  BY ZenonT(30), <1>1, <1>2 DEF PidInv, TypeOK, table
<1>. QED
  BY <1>3, <1>4, <1>5, <1>6, <1>7, <1>8, Zenon DEF IInv, FrameInv

\* fork and clone: the child is READY with a copy of the caller's frame.
LEMMA ForkStep ==
  ASSUME IInv, NEW asThread \in BOOLEAN, Fork(asThread)
  PROVE  IInv'
<1>. USE Contexts
<1>1. cpu \in ProcSlots /\ TypeOK /\ PidInv /\ nextPid \in 1..MaxPid
  BY DEF Fork, InUser, IInv, TypeOK
<1>2. PICK c \in ProcSlots :
        /\ state[c] = "UNUSED"
        /\ state' = [state EXCEPT ![c] = "READY"]
        /\ pid' = [pid EXCEPT ![c] = IF asThread THEN pid[cpu] ELSE nextPid]
        /\ parent' = [parent EXCEPT ![c] = pid[cpu]]
        /\ thr' = [thr EXCEPT ![c] = asThread]
        /\ wpid' = [wpid EXCEPT ![c] = 0]
        /\ parked' = [parked EXCEPT ![c] =
                        [ctx |-> c, age |-> "latest", pc |-> NoProc]]
  BY ZenonT(30) DEF Fork, First
<1>3. /\ UNCHANGED <<cur, uframe, mainReq, trsp, tidx, cpu, mainpc, resumed>>
      /\ nextPid' = nextPid + 1
  BY Zenon DEF Fork
<1>4. TypeOK'
  BY <1>1, <1>2, <1>3, SchedAssumption, SMTT(60)
     DEF TypeOK, States, Frame, SchedAssumption
<1>5. RunningIsCurrent' /\ ResumesLatest'
  BY <1>1, <1>2, <1>3, UserRunning
     DEF IInv, FrameInv, RunningIsCurrent, ResumesLatest, TypeOK
<1>6. CpuInv'
  BY SMTT(30), <1>3 DEF IInv, FrameInv, CpuInv
<1>7. ParkInv'
  <2>1. state \in [ProcSlots -> States] /\ parked \in [ProcSlots -> Frame]
    BY <1>1, Zenon DEF TypeOK
  <2>2. /\ state'[c] = "READY" /\ IsLatest(parked'[c], c)
        /\ \A p \in ProcSlots \ {c} : state'[p] = state[p] /\ parked'[p] = parked[p]
    BY <1>2, <2>1, Zenon DEF IsLatest
  <2>3. \A p \in ProcSlots : state'[p] \in {"READY", "BLOCKED"} => IsLatest(parked'[p], p)
    BY <1>1, <2>2, UserRunning, Zenon
  <2>4. mainpc' = NoProc
    BY <1>1, <1>3, UserRunning, Zenon
  <2>. QED
    BY <2>3, <2>4, Zenon DEF ParkInv, IsLatest
<1>8. TaskInv'
  BY SMTT(30), <1>3 DEF IInv, FrameInv, TaskInv
<1>9. PidInv'
  <2>1. /\ pid \in [ProcSlots -> 0..MaxPid] /\ parent \in [ProcSlots -> 0..MaxPid]
        /\ state \in [ProcSlots -> States] /\ thr \in [ProcSlots -> BOOLEAN]
    BY <1>1, Zenon DEF TypeOK
  <2>2. /\ pid'[c] = (IF asThread THEN pid[cpu] ELSE nextPid) /\ parent'[c] = pid[cpu]
        /\ thr'[c] = asThread
    BY <1>2, <2>1, Zenon
  <2>3. \A p \in ProcSlots \ {c} : /\ pid'[p] = pid[p] /\ parent'[p] = parent[p]
                                   /\ state'[p] = state[p] /\ thr'[p] = thr[p]
    BY <1>2, <2>1
  <2>4. /\ \A p \in ProcSlots : pid[p] < nextPid
        /\ \A p \in ProcSlots : state[p] # "UNUSED" /\ ~thr[p] => parent[p] < pid[p]
    BY <1>1, Zenon DEF PidInv
  <2>5. pid'[c] < nextPid' /\ (~thr'[c] => parent'[c] < pid'[c])
    BY <1>1, <1>3, <2>1, <2>2, <2>4
  <2>6. \A p \in ProcSlots : pid[p] < nextPid'
    BY <1>1, <1>3, <2>1, <2>4
  <2>7. \A p \in ProcSlots : pid'[p] < nextPid'
    BY <2>3, <2>5, <2>6, Zenon
  <2>8. \A p \in ProcSlots : state'[p] # "UNUSED" /\ ~thr'[p] => parent'[p] < pid'[p]
    BY <2>3, <2>4, <2>5, Zenon
  <2>. QED
    BY <2>7, <2>8, Zenon DEF PidInv
<1>. QED
  BY ZenonT(30), <1>4, <1>5, <1>6, <1>7, <1>8, <1>9 DEF IInv, FrameInv

\* A failed fork only uses up a pid.
LEMMA ForkFailsStep ==
  ASSUME IInv, ForkFails
  PROVE  IInv'
<1>1. /\ nextPid \in 1..MaxPid /\ nextPid' = nextPid + 1
      /\ UNCHANGED <<state, pid, parent, thr, wpid, parked, cur, uframe,
                     mainReq, trsp, tidx, cpu, mainpc, resumed>>
  BY DEF ForkFails, IInv, TypeOK
<1>2. TypeOK'
  BY SMTT(30), <1>1, SchedAssumption DEF IInv, TypeOK, SchedAssumption
<1>3. FrameInv'
  BY <1>1 DEF IInv, FrameInv, RunningIsCurrent, ResumesLatest, CpuInv, ParkInv,
              TaskInv
<1>4. PidInv'
  BY SMTT(30), <1>1 DEF IInv, PidInv, TypeOK
<1>. QED
  BY <1>2, <1>3, <1>4, Zenon DEF IInv

\* wait4 on a zombie frees its slot.
LEMMA Wait4ReapStep ==
  ASSUME IInv, Wait4Reap
  PROVE  IInv'
<1>. USE Contexts
<1>1. cpu \in ProcSlots /\ TypeOK /\ PidInv
  BY Zenon DEF Wait4Reap, InUser, IInv
<1>2. PICK c \in ProcSlots :
        /\ state[c] = "ZOMBIE"
        /\ state' = [state EXCEPT ![c] = "UNUSED"]
        /\ parked' = [parked EXCEPT ![c] = NoFrame]
  BY Zenon DEF Wait4Reap
<1>3. UNCHANGED <<table, cur, uframe, mainReq, trsp, tidx, cpu, mainpc,
                  resumed>>
  BY Zenon DEF Wait4Reap
<1>4. TypeOK'
  BY Zenon, <1>1, <1>2, <1>3 DEF TypeOK, States, table
<1>5. RunningIsCurrent' /\ ResumesLatest'
  BY <1>1, <1>2, <1>3, UserRunning
     DEF IInv, FrameInv, RunningIsCurrent, ResumesLatest, TypeOK
<1>6. CpuInv'
  BY ZenonT(30), <1>3 DEF IInv, FrameInv, CpuInv
<1>7. ParkInv'
  BY <1>1, <1>2, <1>3, UserRunning DEF ParkInv, TypeOK
<1>8. TaskInv'
  BY <1>3, Zenon DEF IInv, FrameInv, TaskInv
<1>9. PidInv'
  BY ZenonT(30), <1>1, <1>2, <1>3 DEF PidInv, TypeOK, table
<1>. QED
  BY <1>4, <1>5, <1>6, <1>7, <1>8, <1>9, Zenon DEF IInv, FrameInv

\* A wake-up moves a process from BLOCKED to READY; its frame stays put.
LEMMA WakeStep ==
  ASSUME IInv, Wake
  PROVE  IInv'
<1>. USE Contexts
<1>1. TypeOK /\ PidInv
  BY Zenon DEF IInv
<1>2. PICK q \in ProcSlots : state[q] = "BLOCKED" /\ state' = Ready(state, {q})
  BY ZenonT(30) DEF Wake, Queued
<1>3. UNCHANGED <<table, parked, cur, uframe, mainReq, trsp, tidx, cpu, mainpc,
                  resumed>>
  BY Zenon DEF Wake
<1>4. /\ state' \in [ProcSlots -> States]
      /\ \A p \in ProcSlots : state'[p] = IF p = q THEN "READY" ELSE state[p]
  BY <1>1, <1>2, ReadyEffect DEF TypeOK
<1>5. TypeOK'
  BY <1>1, <1>3, <1>4, Zenon DEF TypeOK, table
<1>6. RunningIsCurrent' /\ ResumesLatest'
  BY <1>2, <1>3, <1>4, SMTT(30) DEF IInv, FrameInv, RunningIsCurrent, ResumesLatest
<1>7. CpuInv'
  BY <1>3 DEF IInv, FrameInv, CpuInv
<1>8. ParkInv'
  BY <1>1, <1>2, <1>3, <1>4, Zenon DEF IInv, FrameInv, ParkInv, TypeOK
<1>9. TaskInv'
  BY <1>3, Zenon DEF IInv, FrameInv, TaskInv
<1>10. PidInv'
  BY Zenon, <1>1, <1>2, <1>3, <1>4 DEF PidInv, table
<1>. QED
  BY <1>5, <1>6, <1>7, <1>8, <1>9, <1>10 DEF IInv, FrameInv

\* wait4 on a live child: the caller parks, the child runs.
LEMMA Wait4RunStep ==
  ASSUME IInv, Wait4Run
  PROVE  IInv'
<1>. USE Contexts
<1>. DEFINE k == [parked EXCEPT ![cpu] = Save]
<1>1. cpu \in ProcSlots /\ TypeOK /\ PidInv /\ parked \in [ProcSlots -> Frame]
  BY Zenon DEF Wait4Run, InUser, IInv, TypeOK
<1>2. PICK c \in ProcSlots :
        /\ state[c] \in {"READY", "RUNNING"} /\ ~thr[c] /\ parent[c] = pid[cpu]
        /\ state' = [state EXCEPT ![cpu] = "BLOCKED", ![c] = "RUNNING"]
        /\ wpid' = [wpid EXCEPT ![cpu] = pid[c]]
        /\ cur' = c
        /\ Resume(parked[c], trsp, NoFrame, k)
  BY ZenonT(30) DEF Wait4Run, FindsChild, First
<1>3. UNCHANGED <<pid, parent, thr, nextPid, mainReq, tidx>>
  BY Zenon DEF Wait4Run
<1>4. c # cpu /\ state[c] = "READY"
  BY <1>1, <1>2, UserRunning, SMTT(60) DEF PidInv, TypeOK
<1>5. /\ state' \in [ProcSlots -> States]
      /\ \A p \in ProcSlots : state'[p] = IF p = c THEN "RUNNING"
                            ELSE IF p = cpu THEN "BLOCKED" ELSE state[p]
  BY <1>1, <1>2, <1>4, Zenon DEF TypeOK, States
<1>6. IsLatest(parked[c], c) /\ parked[c] \in Frame
  BY <1>1, <1>4, UserRunning, Zenon
<1>7. /\ k \in [ProcSlots -> Frame]
      /\ \A p \in ProcSlots : p # c /\ state'[p] \in {"READY", "BLOCKED"} =>
           IsLatest(k[p], p)
  BY <1>1, <1>5, UserRunning
<1>8. \A p \in ProcSlots : state'[p] = "RUNNING" <=> p = c
  BY <1>1, <1>5, UserRunning, Zenon
<1>9. mainReq' = 0 /\ trsp \in [Tasks -> Frame]
  BY Zenon, <1>1, <1>3, UserRunning DEF TypeOK
<1>. HIDE DEF k
<1>10. FrameInv' /\ FrameTypes'
  BY <1>1, <1>2, <1>5, <1>6, <1>7, <1>8, <1>9, UserRunning, ToProcess, SMTT(30)
<1>11. TypeOK'
  BY Zenon, <1>1, <1>2, <1>3, <1>5, <1>10 DEF TypeOK, FrameTypes
<1>12. PidInv'
  <2>1. \A p \in ProcSlots : state'[p] # "UNUSED" => state[p] # "UNUSED"
    BY Zenon, <1>1, <1>4, <1>5, UserRunning
  <2>. QED
    BY ZenonT(30), <1>1, <1>3, <2>1 DEF PidInv
<1>. QED
  BY <1>10, <1>11, <1>12, Zenon DEF IInv

\* Giving the CPU back to main by a software interrupt, with the frames of
\* all processes that stay alive still in place.
LEMMA SoftSwitchStep ==
  ASSUME IInv, cpu \in ProcSlots,
         NEW st \in [ProcSlots -> States], NEW W \in SUBSET ProcSlots,
         NEW k \in [ProcSlots -> Frame], SoftSwitch(st, W, k),
         \A p \in ProcSlots : st[p] # "RUNNING",
         \A p \in ProcSlots : p \in W \/ st[p] \in {"READY", "BLOCKED"} =>
             IsLatest(k[p], p)
  PROVE  /\ FrameInv' /\ FrameTypes'
         /\ state' \in [ProcSlots -> States] /\ cur' = NoProc
         /\ mainReq' = 0 /\ tidx' = 0
         /\ \A p \in ProcSlots : state'[p] = IF p \in W THEN "READY" ELSE st[p]
<1>1. /\ state' = Ready(st, W) /\ cur' = NoProc /\ tidx' = 0 /\ mainReq' = 0
      /\ Resume(trsp[0], trsp, NoFrame, k) /\ TypeOK
  BY Zenon DEF SoftSwitch, IInv
<1>2. /\ state' \in [ProcSlots -> States]
      /\ \A p \in ProcSlots : state'[p] = IF p \in W THEN "READY" ELSE st[p]
  BY <1>1, ReadyEffect
<1>3. /\ \A p \in ProcSlots : state'[p] = "RUNNING" <=> p = cur'
      /\ \A p \in ProcSlots : state'[p] \in {"READY", "BLOCKED"} =>
           IsLatest(k[p], p)
  BY <1>1, <1>2, Contexts, Zenon
<1>. QED
  BY <1>1, <1>2, <1>3, UserRunning, Contexts, ToMain

\* A process blocks on a wait queue.
LEMMA BlockStep ==
  ASSUME IInv, Block
  PROVE  IInv'
<1>. USE Contexts
<1>. DEFINE st == [state EXCEPT ![cpu] = "BLOCKED"]
            k == [parked EXCEPT ![cpu] = Save]
<1>1. cpu \in ProcSlots /\ TypeOK /\ PidInv /\ UNCHANGED table
  BY ZenonT(30) DEF Block, InUser, IInv
<1>2. /\ trsp \in [Tasks -> Frame] /\ parked \in [ProcSlots -> Frame]
      /\ st \in [ProcSlots -> States] /\ st[cpu] = "BLOCKED"
      /\ \A p \in ProcSlots : p # cpu => st[p] = state[p]
  BY <1>1 DEF TypeOK, States
<1>3. /\ k \in [ProcSlots -> Frame]
      /\ \A p \in ProcSlots : st[p] \in {"READY", "BLOCKED"} => IsLatest(k[p], p)
      /\ \A p \in ProcSlots : st[p] # "RUNNING"
  BY ZenonT(30), <1>1, <1>2, UserRunning
<1>4. /\ FrameInv' /\ FrameTypes'
      /\ state' \in [ProcSlots -> States] /\ cur' \in ProcSlots \cup {NoProc}
      /\ mainReq' \in {0, 1} /\ tidx' \in Tasks
      /\ \A p \in ProcSlots : state'[p] # "UNUSED" => state[p] # "UNUSED"
  <2>1. PICK q \in ProcSlots \cup {NoProc} :
          /\ Picks(st, cpu, q)
          /\ IF q # NoProc
             THEN /\ state' = [st EXCEPT ![q] = "RUNNING"]
                  /\ cur' = q
                  /\ Resume(parked[q], trsp, NoFrame, k)
                  /\ UNCHANGED <<mainReq, tidx>>
             ELSE \E W \in SUBSET (Queued(state) \cup {cpu}) :
                    SoftSwitch(st, W, k)
    BY ZenonT(30) DEF Block
  <2>2. CASE q # NoProc
    <3>1. q \in ProcSlots /\ st[q] = "READY" /\ q # cpu
      BY ZenonT(30), <2>1, <2>2 DEF Picks, First
    <3>2. /\ state' = [st EXCEPT ![q] = "RUNNING"] /\ cur' = q
          /\ Resume(parked[q], trsp, NoFrame, k) /\ UNCHANGED <<mainReq, tidx>>
      BY ZenonT(30), <2>1, <2>2
    <3>3. /\ state' \in [ProcSlots -> States]
          /\ \A p \in ProcSlots : state'[p] = IF p = q THEN "RUNNING" ELSE st[p]
      BY ZenonT(30), <3>1, <3>2, <1>2 DEF States
    <3>4. IsLatest(parked[q], q) /\ parked[q] \in Frame
      BY ZenonT(30), <3>1, <1>1, <1>2, UserRunning
    <3>5. /\ \A p \in ProcSlots : state'[p] = "RUNNING" <=> p = q
          /\ \A p \in ProcSlots : p # q /\ state'[p] \in {"READY", "BLOCKED"} =>
               IsLatest(k[p], p)
          /\ \A p \in ProcSlots : state'[p] # "UNUSED" => state[p] # "UNUSED"
      BY ZenonT(40), <3>1, <3>3, <1>1, <1>2, <1>3, UserRunning
    <3>6. mainReq' = 0 /\ tidx' \in Tasks
      BY SMTT(30), <3>2, <1>1, UserRunning DEF TypeOK
    <3>. HIDE DEF k, st
    <3>7. FrameInv' /\ FrameTypes'
      <4>1. /\ TypeOK /\ mainpc = NoProc /\ q \in ProcSlots
            /\ parked[q] \in Frame /\ IsLatest(parked[q], q)
            /\ trsp \in [Tasks -> Frame] /\ k \in [ProcSlots -> Frame]
            /\ \A i \in Tasks : IsLatest(trsp[i], i)
            /\ trsp[0].pc = NoProc
        BY ZenonT(30), <3>1, <3>4, <1>1, <1>2, <1>3, UserRunning
      <4>2. /\ Resume(parked[q], trsp, NoFrame, k)
            /\ cur' = q /\ mainReq' = 0 /\ state' \in [ProcSlots -> States]
        BY <3>2, <3>3, <3>6, Zenon
      <4>. QED
        BY SMTT(30), <4>1, <4>2, <3>5, ToProcess
    <3>. QED
      BY ZenonT(30), <3>1, <3>2, <3>3, <3>5, <3>6, <3>7
  <2>3. CASE q = NoProc
    <3>1. PICK W \in SUBSET (Queued(state) \cup {cpu}) : SoftSwitch(st, W, k)
      BY <2>1, <2>3, ZenonT(30)
    <3>2. W \in SUBSET ProcSlots /\ \A p \in W : st[p] = "BLOCKED"
      BY ZenonT(30), <3>1, <1>1, <1>2 DEF Queued
    <3>. HIDE DEF k, st
    <3>3. /\ FrameInv' /\ FrameTypes'
          /\ state' \in [ProcSlots -> States] /\ cur' = NoProc
          /\ mainReq' = 0 /\ tidx' = 0
          /\ \A p \in ProcSlots : state'[p] = IF p \in W THEN "READY" ELSE st[p]
      BY <3>1, <3>2, <1>1, <1>2, <1>3, SoftSwitchStep, SMTT(30)
    <3>4. \A p \in ProcSlots : state'[p] # "UNUSED" => state[p] # "UNUSED"
      BY SMTT(30), <3>2, <3>3, <1>1, <1>2, UserRunning
    <3>. QED
      BY <3>3, <3>4, Zenon
  <2>. QED
    BY <2>1, <2>2, <2>3, Zenon
<1>5. TypeOK'
  BY Zenon, <1>1, <1>4 DEF TypeOK, FrameTypes, table
<1>6. PidInv'
  BY <1>1, <1>4, Zenon DEF PidInv, table
<1>. QED
  BY ZenonT(30), <1>4, <1>5, <1>6 DEF IInv

\* What releasing the slots of S does to the state table and to the frames.
LEMMA ReleaseEffect ==
  ASSUME TypeOK, NEW st \in [ProcSlots -> States], NEW S \in SUBSET ProcSlots
  PROVE  /\ Release(st, S) \in [ProcSlots -> States]
         /\ \A p \in ProcSlots : Release(st, S)[p] =
              IF p \in S THEN "UNUSED" ELSE st[p]
         /\ DropFrames(S) \in [ProcSlots -> Frame]
         /\ \A p \in ProcSlots \ S : DropFrames(S)[p] = parked[p]
         /\ DropWaits(S) \in [ProcSlots -> 0..MaxPid]
BY Contexts, SchedAssumption DEF SchedAssumption, Release, DropFrames,
   DropWaits, TypeOK, States

\* A thread exits.
LEMMA ThreadExitStep ==
  ASSUME IInv, ThreadExit
  PROVE  IInv'
<1>. DEFINE st == Release(state, {cpu})
            k == DropFrames({cpu})
<1>1. /\ cpu \in ProcSlots /\ TypeOK /\ PidInv
      /\ UNCHANGED <<pid, parent, thr, nextPid>> /\ wpid' = DropWaits({cpu})
  BY Zenon DEF ThreadExit, InUser, IInv
<1>2. PICK W \in SUBSET Queued(state) : SoftSwitch(st, W, k)
  BY Zenon DEF ThreadExit
<1>3. /\ state \in [ProcSlots -> States] /\ {cpu} \in SUBSET ProcSlots
      /\ W \in SUBSET ProcSlots /\ \A p \in W : state[p] = "BLOCKED"
  BY <1>1, <1>2, Zenon DEF TypeOK, Queued
<1>4. /\ st \in [ProcSlots -> States]
      /\ \A p \in ProcSlots : st[p] = IF p = cpu THEN "UNUSED" ELSE state[p]
      /\ k \in [ProcSlots -> Frame]
      /\ \A p \in ProcSlots : p # cpu => k[p] = parked[p]
      /\ wpid' \in [ProcSlots -> 0..MaxPid]
  BY <1>1, <1>3, ReleaseEffect
<1>. HIDE DEF st, k
<1>5. /\ \A p \in ProcSlots : st[p] # "RUNNING"
      /\ \A p \in ProcSlots : p \in W \/ st[p] \in {"READY", "BLOCKED"} =>
           IsLatest(k[p], p)
  BY <1>1, <1>3, <1>4, UserRunning
<1>6. /\ FrameInv' /\ FrameTypes'
      /\ state' \in [ProcSlots -> States] /\ cur' = NoProc
      /\ mainReq' = 0 /\ tidx' = 0
      /\ \A p \in ProcSlots : state'[p] = IF p \in W THEN "READY" ELSE st[p]
  <2>1. /\ cpu \in ProcSlots /\ st \in [ProcSlots -> States] /\ W \in SUBSET ProcSlots
        /\ k \in [ProcSlots -> Frame] /\ SoftSwitch(st, W, k)
    BY <1>1, <1>2, <1>3, <1>4, Zenon
  <2>. QED
    BY <2>1, <1>5, SoftSwitchStep
<1>7. TypeOK'
  BY <1>1, <1>4, <1>6, Contexts, Zenon DEF TypeOK, FrameTypes
<1>8. PidInv'
  BY <1>1, <1>3, <1>4, <1>6, ZenonT(30) DEF PidInv
<1>. QED
  BY <1>6, <1>7, <1>8, Zenon DEF IInv

\* A process exits; its group of threads goes with it.
LEMMA ExitStep ==
  ASSUME IInv, Exit
  PROVE  IInv'
<1>. USE Contexts
<1>. DEFINE G == GroupOf(cpu)
            k == DropFrames(G)
<1>1. /\ cpu \in ProcSlots /\ TypeOK /\ PidInv /\ ~thr[cpu]
      /\ UNCHANGED <<pid, parent, thr, nextPid>>
      /\ trsp \in [Tasks -> Frame] /\ parked \in [ProcSlots -> Frame]
      /\ state \in [ProcSlots -> States]
  BY ZenonT(30) DEF Exit, InUser, IInv, TypeOK
<1>2. PICK W \in SUBSET (Queued(state) \ G) :
        \E q \in ProcSlots \cup {NoProc} :
          LET st == [Ready(Release(state, G), W) EXCEPT ![cpu] = "ZOMBIE"]
          IN /\ FindsWaiter(st, pid[cpu], q)
             /\ IF q # NoProc
                THEN /\ state' = [st EXCEPT ![q] = "RUNNING"]
                     /\ wpid' = [DropWaits(G) EXCEPT ![q] = 0]
                     /\ cur' = q
                     /\ Resume(parked[q], trsp, NoFrame, k)
                     /\ UNCHANGED <<mainReq, tidx>>
                ELSE /\ SoftSwitch(st, {}, k)
                     /\ wpid' = DropWaits(G)
  BY ZenonT(30) DEF Exit
<1>. DEFINE st == [Ready(Release(state, G), W) EXCEPT ![cpu] = "ZOMBIE"]
<1>3. /\ G \in SUBSET ProcSlots /\ cpu \notin G /\ W \in SUBSET ProcSlots
      /\ \A p \in W : state[p] = "BLOCKED" /\ p \notin G
  BY <1>2, ZenonT(30) DEF GroupOf, Queued
<1>4. /\ Release(state, G) \in [ProcSlots -> States]
      /\ \A p \in ProcSlots : Release(state, G)[p] =
           IF p \in G THEN "UNUSED" ELSE state[p]
      /\ k \in [ProcSlots -> Frame]
      /\ \A p \in ProcSlots \ G : k[p] = parked[p]
      /\ DropWaits(G) \in [ProcSlots -> 0..MaxPid]
  BY <1>1, <1>3, ReleaseEffect, Zenon
<1>5. /\ st \in [ProcSlots -> States]
      /\ \A p \in ProcSlots : st[p] = IF p = cpu THEN "ZOMBIE"
                                  ELSE IF p \in G THEN "UNUSED"
                                  ELSE IF p \in W THEN "READY" ELSE state[p]
  BY <1>1, <1>3, <1>4, ReadyEffect, SMTT(60) DEF States
<1>6. PICK q \in ProcSlots \cup {NoProc} :
        /\ FindsWaiter(st, pid[cpu], q)
        /\ IF q # NoProc
           THEN /\ state' = [st EXCEPT ![q] = "RUNNING"]
                /\ wpid' = [DropWaits(G) EXCEPT ![q] = 0]
                /\ cur' = q
                /\ Resume(parked[q], trsp, NoFrame, k)
                /\ UNCHANGED <<mainReq, tidx>>
           ELSE /\ SoftSwitch(st, {}, k)
                /\ wpid' = DropWaits(G)
  BY <1>2, ZenonT(30)
<1>. HIDE DEF G, k, st
<1>7. /\ \A p \in ProcSlots : st[p] # "RUNNING"
      /\ \A p \in ProcSlots : st[p] \in {"READY", "BLOCKED"} => IsLatest(k[p], p)
      /\ \A p \in ProcSlots : st[p] # "UNUSED" => state[p] # "UNUSED"
  BY SMTT(30), <1>1, <1>3, <1>4, <1>5, UserRunning
<1>8. /\ FrameInv' /\ FrameTypes'
      /\ state' \in [ProcSlots -> States] /\ cur' \in ProcSlots \cup {NoProc}
      /\ mainReq' \in {0, 1} /\ tidx' \in Tasks
      /\ wpid' \in [ProcSlots -> 0..MaxPid]
      /\ \A p \in ProcSlots : state'[p] # "UNUSED" => state[p] # "UNUSED"
  <2>1. CASE q # NoProc
    <3>1. q \in ProcSlots /\ st[q] = "BLOCKED" /\ q # cpu /\ q \notin G
      BY <1>1, <1>5, <1>6, <2>1, Zenon DEF FindsWaiter, First
    <3>2. /\ state' = [st EXCEPT ![q] = "RUNNING"] /\ cur' = q
          /\ wpid' = [DropWaits(G) EXCEPT ![q] = 0]
          /\ Resume(parked[q], trsp, NoFrame, k) /\ UNCHANGED <<mainReq, tidx>>
      BY <1>6, <2>1, ZenonT(30)
    <3>3. /\ state' \in [ProcSlots -> States]
          /\ \A p \in ProcSlots : state'[p] = IF p = q THEN "RUNNING" ELSE st[p]
          /\ wpid' \in [ProcSlots -> 0..MaxPid]
      BY <3>1, <3>2, <1>4, <1>5, SchedAssumption, SMTT(60) DEF States, SchedAssumption
    <3>4. IsLatest(parked[q], q) /\ parked[q] \in Frame
      BY SMTT(30), <3>1, <1>1, <1>4, <1>7
    <3>5. /\ \A p \in ProcSlots : state'[p] = "RUNNING" <=> p = q
          /\ \A p \in ProcSlots : p # q /\ state'[p] \in {"READY", "BLOCKED"} =>
               IsLatest(k[p], p)
          /\ \A p \in ProcSlots : state'[p] # "UNUSED" => state[p] # "UNUSED"
      BY <3>1, <3>3, <1>7, Zenon
    <3>6. mainReq' = 0 /\ tidx' \in Tasks
      BY <3>2, <1>1, UserRunning, ZenonT(30) DEF TypeOK
    <3>7. FrameInv' /\ FrameTypes'
      <4>1. /\ TypeOK /\ mainpc = NoProc /\ q \in ProcSlots
            /\ parked[q] \in Frame /\ IsLatest(parked[q], q)
            /\ trsp \in [Tasks -> Frame] /\ k \in [ProcSlots -> Frame]
            /\ \A i \in Tasks : IsLatest(trsp[i], i)
            /\ trsp[0].pc = NoProc
        BY <3>1, <3>4, <1>1, <1>4, UserRunning, Zenon
      <4>2. /\ Resume(parked[q], trsp, NoFrame, k)
            /\ cur' = q /\ mainReq' = 0 /\ state' \in [ProcSlots -> States]
        BY <3>2, <3>3, <3>6, ZenonT(30)
      <4>. QED
        BY SMTT(30), <4>1, <4>2, <3>5, ToProcess
    <3>. QED
      BY ZenonT(30), <3>1, <3>2, <3>3, <3>5, <3>6, <3>7
  <2>2. CASE q = NoProc
    <3>1. SoftSwitch(st, {}, k) /\ wpid' = DropWaits(G)
      BY ZenonT(30), <1>6, <2>2
    <3>2. /\ FrameInv' /\ FrameTypes'
          /\ state' \in [ProcSlots -> States] /\ cur' = NoProc
          /\ mainReq' = 0 /\ tidx' = 0
          /\ \A p \in ProcSlots : state'[p] = IF p \in {} THEN "READY" ELSE st[p]
      <4>. DEFINE none == {}
      <4>1. /\ cpu \in ProcSlots /\ st \in [ProcSlots -> States] /\ none \in SUBSET ProcSlots
            /\ k \in [ProcSlots -> Frame] /\ SoftSwitch(st, none, k)
        BY <3>1, <1>1, <1>4, <1>5, Zenon
      <4>2. \A p \in ProcSlots : p \in none \/ st[p] \in {"READY", "BLOCKED"} =>
              IsLatest(k[p], p)
        BY <1>7, Zenon
      <4>3. \A p \in ProcSlots : st[p] # "RUNNING"
        BY <1>7, Zenon
      <4>. HIDE DEF none, st, k
      <4>4. /\ FrameInv' /\ FrameTypes'
            /\ state' \in [ProcSlots -> States] /\ cur' = NoProc
            /\ mainReq' = 0 /\ tidx' = 0
            /\ \A p \in ProcSlots : state'[p] = IF p \in none THEN "READY" ELSE st[p]
        BY <4>1, <4>2, <4>3, SoftSwitchStep, SMTT(30)
      <4>. QED
        BY <4>4, Zenon DEF none
    <3>. QED
      BY <3>1, <3>2, <1>4, <1>7, ZenonT(30)
  <2>. QED
    BY Zenon, <2>1, <2>2
<1>9. TypeOK'
  BY <1>1, <1>8, ZenonT(30) DEF TypeOK, FrameTypes
<1>10. PidInv'
  BY <1>1, <1>8, Zenon DEF PidInv
<1>. QED
  BY ZenonT(30), <1>8, <1>9, <1>10 DEF IInv

\* The kernel boots into the invariant.
LEMMA InitIInv == Init => IInv
<1>. SUFFICES ASSUME Init PROVE IInv
  BY Zenon
<1>. USE Contexts, SchedAssumption DEF SchedAssumption, Init
<1>1. TypeOK
  <2>1. trsp \in [Tasks -> Frame]
    BY Zenon DEF Frame, Ctx
  <2>2. resumed \in Frame
    BY Zenon DEF Frame
  <2>3. state \in [ProcSlots -> States]
    BY Zenon DEF States
  <2>. QED
    BY <2>1, <2>2, <2>3 DEF TypeOK
<1>2. FrameInv
  BY Zenon DEF FrameInv, RunningIsCurrent, ResumesLatest, CpuInv, ParkInv, TaskInv,
         IsLatest, NoProc
<1>3. PidInv
  BY DEF PidInv
<1>. QED
  BY <1>1, <1>2, <1>3, Zenon DEF IInv

\* Without CPU exceptions every step preserves the invariant.
LEMMA StepIInv == ~Faults /\ IInv /\ [Next]_vars => IInv'
<1>. SUFFICES ASSUME ~Faults, IInv, [Next]_vars PROVE IInv'
  BY Zenon
<1>1. ASSUME NEW W \in SUBSET Queued(state), TickMainSwitch(W) PROVE IInv'
  BY <1>1 DEF TickMainSwitch, IInv, FrameInv, CpuInv
<1>2. ASSUME NEW W \in SUBSET Queued(state), TickToUser(W) PROVE IInv'
  BY <1>2, TickToUserStep, Zenon
<1>3. ASSUME NEW W \in SUBSET Queued(state), TickToMain(W) PROVE IInv'
  BY <1>3, TickToMainStep, Zenon
<1>4. ASSUME NEW W \in SUBSET Queued(state), TickKernel(W) PROVE IInv'
  BY <1>4, TickKernelStep, Zenon
<1>5. CASE Tick
  BY <1>1, <1>2, <1>3, <1>4, <1>5, Zenon DEF Tick
<1>6. CASE LoadProgram \/ LoadFails \/ RunProgram
  BY <1>6, LoadProgramStep, LoadFailsStep, RunProgramStep, Zenon
<1>7. CASE Fork(FALSE) \/ Fork(TRUE)
  BY <1>7, ForkStep, ZenonT(30)
<1>8. CASE ForkFails \/ Wait4Reap \/ Wait4Run \/ Block \/ Wake
  BY <1>8, ForkFailsStep, Wait4ReapStep, Wait4RunStep, BlockStep, WakeStep, Zenon
<1>9. CASE ThreadExit \/ Exit
  BY <1>9, ThreadExitStep, ExitStep, Zenon
<1>10. CASE Fault
  BY ZenonT(30), <1>10 DEF Fault
<1>11. CASE UNCHANGED vars
  BY <1>11, Zenon DEF vars, table, IInv, TypeOK, FrameInv, RunningIsCurrent,
     ResumesLatest, CpuInv, ParkInv, TaskInv, PidInv, IsLatest
<1>. QED
  BY <1>5, <1>6, <1>7, <1>8, <1>9, <1>10, <1>11, Zenon DEF Next

\* Without CPU exceptions in user code the inductive invariant holds of every
\* run, for any number of process slots, kernel tasks and pids.
THEOREM Invariance == ~Faults => (Spec => []IInv)
<1>1. ~Faults /\ IInv /\ [Next]_vars => IInv'
  BY StepIInv, Zenon
<1>2. CASE ~Faults
  <2>1. IInv /\ [Next]_vars => IInv'
    BY <1>1, <1>2, Zenon
  <2>. QED
    BY <2>1, InitIInv, PTL DEF Spec
<1>. QED
  BY <1>2, Zenon

\* Every variable keeps its type: slots, pids, frames and indices stay in
\* their tables.
THEOREM TypesHold == ~Faults => (Spec => []TypeOK)
<1>1. IInv => TypeOK
  BY Zenon DEF IInv
<1>. QED
  BY <1>1, Invariance, PTL

\* Ticks, exits, wait4 and blocking system calls only ever restore the latest
\* frame of the context they resume, however they interleave.
THEOREM NoStaleResume == ~Faults => (Spec => []ResumesLatest)
<1>1. IInv => ResumesLatest
  BY Zenon DEF IInv, FrameInv
<1>. QED
  BY <1>1, Invariance, PTL

\* Every process off the CPU and every kernel task off the CPU has its latest
\* frame where the next hand-over looks for it.
THEOREM NoContextLost == ~Faults => (Spec => []NothingLost)
<1>1. IInv => NothingLost
  BY Contexts, Zenon DEF IInv, FrameInv, TypeOK, CpuInv, ParkInv, TaskInv, NothingLost, Ctx
<1>. QED
  BY <1>1, Invariance, PTL

\* current_process is the one RUNNING slot of the process table at all times.
THEOREM OneRunning == ~Faults => (Spec => []RunningIsCurrent)
<1>1. IInv => RunningIsCurrent
  BY Zenon DEF IInv, FrameInv
<1>. QED
  BY <1>1, Invariance, PTL

\* While the shell is between loading and starting a program, that program is
\* the only active process.
THEOREM OneLaunch == ~Faults => (Spec => []LaunchIsExclusive)
<1>1. IInv => LaunchIsExclusive
  BY DEF IInv, FrameInv, TypeOK, ParkInv, LaunchIsExclusive, Active
<1>. QED
  BY <1>1, Invariance, PTL
----------------------------------------------------------------------------
(* wait4                                                                   *)

\* What process_find_child() and process_find_waiter() look among:
\* leaders whose slot is taken.
Leader(p) == state[p] # "UNUSED" /\ ~thr[p]

\* The child that a process is parked for by wait4.
Awaited(p, c) == c \in Active(state) /\ pid[c] = wpid[p] /\ ~thr[c] /\ parent[c] = pid[p]

\* wait_pid is set only while its process is blocked; the leader that set it has
\* an active child of that pid; and a pid names one leader.
WaitInv ==
  /\ \A p \in ProcSlots : wpid[p] # 0 => state[p] = "BLOCKED"
  /\ \A p \in ProcSlots : wpid[p] # 0 /\ ~thr[p] => \E c \in ProcSlots : Awaited(p, c)
  /\ \A p, q \in ProcSlots : Leader(p) /\ Leader(q) /\ pid[p] = pid[q] => p = q

\* A step that starts no process and parks nobody in wait4 keeps WaitInv if the
\* child of every leader that stays parked stays active.
LEMMA WaitKept ==
  ASSUME WaitInv, UNCHANGED <<pid, parent, thr>>,
         \A p \in ProcSlots : state'[p] # "UNUSED" => state[p] # "UNUSED",
         \A p \in ProcSlots : wpid'[p] # 0 => wpid'[p] = wpid[p] /\ state'[p] = "BLOCKED",
         \A p, c \in ProcSlots : wpid'[p] # 0 /\ ~thr[p] /\ Awaited(p, c) => c \in Active(state')
  PROVE  WaitInv'
<1>1. \A p \in ProcSlots : wpid'[p] # 0 => state'[p] = "BLOCKED"
  BY Zenon
<1>2. \A p \in ProcSlots : wpid'[p] # 0 /\ ~thr'[p] => \E c \in ProcSlots : Awaited(p, c)'
  <2>. SUFFICES ASSUME NEW p \in ProcSlots, wpid'[p] # 0, ~thr[p]
                PROVE  \E c \in ProcSlots : Awaited(p, c)'
    BY Zenon
  <2>1. wpid'[p] = wpid[p] /\ wpid[p] # 0
    BY Zenon
  <2>2. PICK c \in ProcSlots : Awaited(p, c)
    BY <2>1, Zenon DEF WaitInv
  <2>3. c \in Active(state')
    BY <2>2, Zenon
  <2>4. Awaited(p, c)'
    BY <2>1, <2>2, <2>3, Zenon DEF Awaited, Active
  <2>. QED
    BY <2>4, Zenon
<1>3. \A p, q \in ProcSlots : Leader(p)' /\ Leader(q)' /\ pid'[p] = pid'[q] => p = q
  BY Zenon DEF WaitInv, Leader
<1>. QED
  BY <1>1, <1>2, <1>3, Zenon DEF WaitInv

\* The case in which wait_pid does not change and no slot is given up, nor a
\* process brought to its end.
LEMMA WaitKeptAll ==
  ASSUME WaitInv, UNCHANGED <<pid, parent, thr, wpid>>,
         \A p \in ProcSlots : state'[p] # "UNUSED" => state[p] # "UNUSED",
         \A p \in ProcSlots : wpid[p] # 0 => state'[p] = state[p],
         \A p \in ProcSlots : p \in Active(state) => p \in Active(state')
  PROVE  WaitInv'
BY WaitKept, Zenon DEF WaitInv, Awaited

\* Ticks and wake-ups make blocked processes ready only when they wait on a queue.
LEMMA WaitTick ==
  ASSUME IInv, WaitInv, NEW W \in SUBSET Queued(state),
         TickToUser(W) \/ TickToMain(W) \/ TickKernel(W)
  PROVE  WaitInv'
<1>1. UNCHANGED <<pid, parent, thr, wpid>>
  BY Zenon DEF TickToUser, TickToMain, TickKernel, table
<1>2. /\ state \in [ProcSlots -> States] /\ W \in SUBSET ProcSlots
      /\ cur \in ProcSlots \cup {NoProc}
      /\ \A p \in W : state[p] = "BLOCKED" /\ wpid[p] = 0
  BY Zenon DEF Queued, IInv, TypeOK
<1>3. \A p \in ProcSlots : Ready(state, W)[p] = IF p \in W THEN "READY" ELSE state[p]
  BY <1>2, ReadyEffect
<1>4. \A p \in ProcSlots : state'[p] # state[p] =>
        /\ state'[p] \in {"READY", "RUNNING"} /\ state[p] # "UNUSED"
        /\ state[p] = "BLOCKED" => wpid[p] = 0
  <2>1. CASE TickToMain(W)
    BY <2>1, <1>2, <1>3, Zenon DEF TickToMain
  <2>2. CASE TickToUser(W)
    <3>1. PICK q \in ProcSlots \cup {NoProc} :
             /\ Picks(Ready(state, W), cur, q)
             /\ state' = IF q # NoProc
                         THEN [Ready(state, W) EXCEPT ![cur] = "READY", ![q] = "RUNNING"]
                         ELSE Ready(state, W)
      BY <2>2, Zenon DEF TickToUser
    <3>2. q # NoProc => q \in ProcSlots /\ Ready(state, W)[q] = "READY"
      BY <3>1, Zenon DEF Picks, First
    <3>3. cur \in ProcSlots /\ state[cur] = "RUNNING"
      BY <2>2, <1>2, Zenon DEF TickToUser
    <3>. QED
      BY <3>1, <3>2, <3>3, <1>2, <1>3 DEF Ready
  <2>3. CASE TickKernel(W)
    <3>1. PICK q \in ProcSlots \cup {NoProc} :
             /\ Picks(Ready(state, W), NoProc, q)
             /\ state' = IF q # NoProc THEN [Ready(state, W) EXCEPT ![q] = "RUNNING"]
                         ELSE Ready(state, W)
      BY <2>3, Zenon DEF TickKernel
    <3>2. q # NoProc => q \in ProcSlots /\ Ready(state, W)[q] = "READY"
      BY <3>1, Zenon DEF Picks, First
    <3>. QED
      BY <3>1, <3>2, <1>2, <1>3 DEF Ready
  <2>. QED
    BY <2>1, <2>2, <2>3, Zenon
<1>5. \A p \in ProcSlots : wpid[p] # 0 => state'[p] = state[p]
  BY <1>4, Zenon DEF WaitInv
<1>. QED
  BY <1>1, <1>4, <1>5, WaitKeptAll, Zenon DEF Active

\* The launch path runs while no process is active, so none is parked.
LEMMA WaitLaunch ==
  ASSUME IInv, WaitInv, LoadProgram \/ LoadFails \/ RunProgram
  PROVE  WaitInv'
<1>1. /\ state \in [ProcSlots -> States] /\ nextPid \in Nat
      /\ wpid \in [ProcSlots -> 0..MaxPid] /\ pid \in [ProcSlots -> 0..MaxPid]
      /\ thr \in [ProcSlots -> BOOLEAN] /\ mainpc \in ProcSlots \cup {NoProc}
      /\ \A p \in ProcSlots : pid[p] < nextPid
  BY SchedAssumption DEF IInv, TypeOK, PidInv, SchedAssumption
<1>2. CASE RunProgram
  <2>1. UNCHANGED <<pid, parent, thr, wpid>>
    BY <1>2, Zenon DEF RunProgram, table
  <2>2. state' = IF state[mainpc] = "READY" THEN [state EXCEPT ![mainpc] = "RUNNING"] ELSE state
    BY <1>2, Zenon DEF RunProgram
  <2>3. mainpc \in ProcSlots
    BY <1>1, <1>2, Zenon DEF RunProgram
  <2>. QED
    BY <2>1, <2>2, <2>3, <1>1, WaitKeptAll DEF WaitInv, Active
<1>3. ASSUME Active(state) = {} PROVE \A p \in ProcSlots : wpid[p] = 0
  BY <1>3, Zenon DEF Active, WaitInv
<1>4. CASE LoadFails
  <2>1. UNCHANGED <<pid, parent, thr, wpid>> /\ Active(state) = {} /\ state' = Reaped
    BY <1>4, Zenon DEF LoadFails
  <2>2. \A p \in ProcSlots : state'[p] # "UNUSED" => state[p] # "UNUSED"
    BY <2>1, Zenon DEF Reaped
  <2>3. \A p \in ProcSlots : wpid'[p] = 0
    BY <2>1, <1>3, Zenon
  <2>. QED
    BY <2>1, <2>2, <2>3, WaitKept, Zenon
<1>5. CASE LoadProgram
  <2>1. PICK c \in ProcSlots :
          /\ state' = [Reaped EXCEPT ![c] = "READY"]
          /\ pid' = [pid EXCEPT ![c] = nextPid]
          /\ thr' = [thr EXCEPT ![c] = FALSE]
          /\ wpid' = [wpid EXCEPT ![c] = 0]
    BY <1>5, ZenonT(30) DEF LoadProgram
  <2>2. Active(state) = {}
    BY <1>5, Zenon DEF LoadProgram
  <2>3. \A p \in ProcSlots : wpid'[p] = 0
    BY <2>1, <2>2, <1>1, <1>3, Zenon
  <2>4. \A p \in ProcSlots : p # c => (Leader(p)' => Leader(p)) /\ pid'[p] = pid[p]
    BY <2>1, <1>1, Zenon DEF Leader, Reaped
  <2>5. \A p \in ProcSlots : p # c => pid'[p] # pid'[c]
    BY <2>1, <1>1
  <2>6. \A p, q \in ProcSlots : Leader(p)' /\ Leader(q)' /\ pid'[p] = pid'[q] => p = q
    BY <2>4, <2>5, Zenon DEF WaitInv
  <2>. QED
    BY <2>3, <2>6, Zenon DEF WaitInv
<1>. QED
  BY <1>2, <1>4, <1>5, Zenon

\* A new process takes an unused slot, and as a leader a pid nobody has.
LEMMA WaitFork ==
  ASSUME IInv, WaitInv, NEW asThread \in BOOLEAN, Fork(asThread)
  PROVE  WaitInv'
<1>1. /\ state \in [ProcSlots -> States] /\ nextPid \in Nat
      /\ wpid \in [ProcSlots -> 0..MaxPid] /\ pid \in [ProcSlots -> 0..MaxPid]
      /\ parent \in [ProcSlots -> 0..MaxPid]
      /\ \A p \in ProcSlots : pid[p] < nextPid
  BY SchedAssumption DEF IInv, TypeOK, PidInv, SchedAssumption
<1>2. thr \in [ProcSlots -> BOOLEAN]
  BY Zenon DEF IInv, TypeOK
<1>3. PICK c \in ProcSlots :
        /\ state[c] = "UNUSED"
        /\ state' = [state EXCEPT ![c] = "READY"]
        /\ pid' = [pid EXCEPT ![c] = IF asThread THEN pid[cpu] ELSE nextPid]
        /\ parent' = [parent EXCEPT ![c] = pid[cpu]]
        /\ thr' = [thr EXCEPT ![c] = asThread]
        /\ wpid' = [wpid EXCEPT ![c] = 0]
  <2>1. PICK c \in ProcSlots :
          /\ First({p \in ProcSlots : state[p] = "UNUSED"}, c)
          /\ state' = [state EXCEPT ![c] = "READY"]
          /\ pid' = [pid EXCEPT ![c] = IF asThread THEN pid[cpu] ELSE nextPid]
          /\ parent' = [parent EXCEPT ![c] = pid[cpu]]
          /\ thr' = [thr EXCEPT ![c] = asThread]
          /\ wpid' = [wpid EXCEPT ![c] = 0]
    BY ZenonT(30) DEF Fork
  <2>2. state[c] = "UNUSED"
    BY <2>1, Contexts, Zenon DEF First
  <2>. QED
    BY <2>1, <2>2, Zenon
<1>4. /\ thr'[c] = asThread
      /\ \A p \in ProcSlots : p # c => thr'[p] = thr[p]
  BY <1>2, <1>3, ZenonT(30)
<1>5. /\ state'[c] = "READY" /\ wpid'[c] = 0
      /\ \A p \in ProcSlots : p # c => /\ state'[p] = state[p] /\ wpid'[p] = wpid[p]
                                       /\ pid'[p] = pid[p] /\ parent'[p] = parent[p]
  BY <1>1, <1>3, Zenon
<1>6. ~asThread => pid'[c] = nextPid
  BY <1>1, <1>3, Zenon
<1>7. \A p \in ProcSlots : wpid'[p] # 0 => state'[p] = "BLOCKED"
  BY <1>5 DEF WaitInv
<1>8. \A p \in ProcSlots : wpid'[p] # 0 /\ ~thr'[p] => \E d \in ProcSlots : Awaited(p, d)'
  <2>. SUFFICES ASSUME NEW p \in ProcSlots, wpid'[p] # 0, ~thr'[p]
                PROVE  \E d \in ProcSlots : Awaited(p, d)'
    BY Zenon
  <2>1. p # c /\ wpid[p] # 0 /\ ~thr[p]
    BY <1>4, <1>5, Zenon
  <2>2. PICK d \in ProcSlots : Awaited(p, d)
    BY <2>1, Zenon DEF WaitInv
  <2>3. d # c
    BY <2>2, <1>3, Zenon DEF Awaited, Active
  <2>4. Awaited(p, d)'
    BY <2>1, <2>2, <2>3, <1>4, <1>5 DEF Awaited, Active
  <2>. QED
    BY <2>4, Zenon
<1>9. \A p, q \in ProcSlots : Leader(p)' /\ Leader(q)' /\ pid'[p] = pid'[q] => p = q
  <2>1. \A p \in ProcSlots : p # c => (Leader(p)' <=> Leader(p)) /\ pid'[p] = pid[p]
    BY <1>4, <1>5 DEF Leader
  <2>2. Leader(c)' => \A p \in ProcSlots : p # c => pid'[p] # pid'[c]
    BY <1>1, <1>4, <1>5, <1>6 DEF Leader
  <2>. QED
    BY <2>1, <2>2, Zenon DEF WaitInv
<1>. QED
  BY <1>7, <1>8, <1>9, Zenon DEF WaitInv

\* wait4: an exited child's slot is given up; for a live one the caller is parked.
LEMMA WaitWait4 ==
  ASSUME IInv, WaitInv, Wait4Reap \/ Wait4Run
  PROVE  WaitInv'
<1>1. /\ state \in [ProcSlots -> States] /\ cpu \in ProcSlots
      /\ wpid \in [ProcSlots -> 0..MaxPid]
  BY Zenon DEF IInv, TypeOK, Wait4Reap, Wait4Run, InUser
<1>2. CASE Wait4Reap
  <2>1. UNCHANGED <<pid, parent, thr, wpid>>
    BY <1>2, Zenon DEF Wait4Reap, table
  <2>2. PICK c \in ProcSlots : state[c] = "ZOMBIE" /\ state' = [state EXCEPT ![c] = "UNUSED"]
    BY <1>2, ZenonT(30) DEF Wait4Reap
  <2>. QED
    BY <2>1, <2>2, <1>1, WaitKeptAll, Zenon DEF WaitInv, Active
<1>3. CASE Wait4Run
  <2>1. UNCHANGED <<pid, parent, thr>>
    BY <1>3, Zenon DEF Wait4Run
  <2>2. PICK target \in 0..MaxPid, c \in ProcSlots :
          /\ FindsChild(cpu, target, c)
          /\ state[c] # "ZOMBIE"
          /\ state' = [state EXCEPT ![cpu] = "BLOCKED", ![c] = "RUNNING"]
          /\ wpid' = [wpid EXCEPT ![cpu] = pid[c]]
    BY <1>3, ZenonT(30) DEF Wait4Run
  <2>3. state[c] \in {"READY", "RUNNING"} /\ ~thr[c] /\ parent[c] = pid[cpu]
    BY <2>2, Contexts, Zenon DEF FindsChild, First
  <2>4. pid[c] > parent[c] /\ c # cpu
    <3>1. pid \in [ProcSlots -> Nat] /\ parent \in [ProcSlots -> Nat]
      BY SchedAssumption DEF IInv, TypeOK, SchedAssumption
    <3>. QED
      BY <3>1, <2>3, <1>1 DEF IInv, PidInv
  <2>5. \A p \in ProcSlots : /\ state'[p] = IF p = c THEN "RUNNING" ELSE IF p = cpu THEN "BLOCKED" ELSE state[p]
                             /\ wpid'[p] = IF p = cpu THEN pid[c] ELSE wpid[p]
    BY <2>2, <2>4, <1>1, Zenon
  <2>6. wpid[c] = 0
    BY <2>3, Zenon DEF WaitInv
  <2>7. \A p \in ProcSlots : wpid'[p] # 0 => state'[p] = "BLOCKED"
    BY <2>4, <2>5, <2>6 DEF WaitInv
  <2>8. \A d \in ProcSlots : d \in Active(state) => d \in Active(state')
    BY <2>5, Zenon DEF Active
  <2>9. ASSUME NEW p \in ProcSlots, wpid'[p] # 0, ~thr'[p] PROVE \E d \in ProcSlots : Awaited(p, d)'
    <3>1. CASE p = cpu
      <4>1. Awaited(p, c)'
        BY <3>1, <2>1, <2>3, <2>5, <1>1, Zenon DEF Awaited, Active
      <4>. QED
        BY <4>1
    <3>2. CASE p # cpu
      <4>1. wpid'[p] = wpid[p]
        BY <3>2, <2>5, Zenon
      <4>2. PICK d \in ProcSlots : Awaited(p, d)
        BY <4>1, <2>1, <2>9, Zenon DEF WaitInv
      <4>3. Awaited(p, d)'
        BY <4>1, <4>2, <2>1, <2>8, Zenon DEF Awaited
      <4>. QED
        BY <4>3, Zenon
    <3>. QED
      BY <3>1, <3>2, Zenon
  <2>10. \A p \in ProcSlots : Leader(p)' => Leader(p)
    <3>1. state[cpu] # "UNUSED"
      BY <1>1, UserRunning, Zenon
    <3>. QED
      BY <3>1, <2>1, <2>3, <2>5, Zenon DEF Leader
  <2>11. \A p, q \in ProcSlots : Leader(p)' /\ Leader(q)' /\ pid'[p] = pid'[q] => p = q
    BY <2>1, <2>10, Zenon DEF WaitInv
  <2>. QED
    BY <2>7, <2>9, <2>11, Zenon DEF WaitInv
<1>. QED
  BY <1>2, <1>3, Zenon

\* Blocking and waking: the caller is running, so it is not parked in wait4 yet,
\* and those it wakes wait on queues.
LEMMA WaitBlock ==
  ASSUME IInv, WaitInv, Block \/ Wake
  PROVE  WaitInv'
<1>1. UNCHANGED <<pid, parent, thr, wpid>> /\ state \in [ProcSlots -> States]
  BY Zenon DEF Block, Wake, table, IInv, TypeOK
<1>2. CASE Wake
  <2>1. PICK q \in Queued(state) : state' = Ready(state, {q})
    BY <1>2, Zenon DEF Wake
  <2>2. q \in ProcSlots /\ state[q] = "BLOCKED" /\ wpid[q] = 0
    BY <2>1, Zenon DEF Queued
  <2>. QED
    BY <2>1, <2>2, <1>1, WaitKeptAll, Zenon DEF Ready, Active
<1>3. CASE Block
  <2>. DEFINE st == [state EXCEPT ![cpu] = "BLOCKED"]
  <2>1. cpu \in ProcSlots /\ state[cpu] = "RUNNING" /\ wpid[cpu] = 0
    <3>1. cpu \in ProcSlots
      BY <1>3 DEF Block, InUser
    <3>2. state[cpu] = "RUNNING"
      BY <3>1, UserRunning, Zenon
    <3>. QED
      BY <3>1, <3>2, Zenon DEF WaitInv
  <2>2. \/ \E q \in ProcSlots : st[q] = "READY" /\ state' = [st EXCEPT ![q] = "RUNNING"]
        \/ \E W \in SUBSET (Queued(state) \cup {cpu}) : state' = Ready(st, W)
    <3>1. PICK q \in ProcSlots \cup {NoProc} :
            /\ Picks(st, cpu, q)
            /\ q # NoProc => state' = [st EXCEPT ![q] = "RUNNING"]
            /\ q = NoProc => \E W \in SUBSET (Queued(state) \cup {cpu}) : state' = Ready(st, W)
      BY <1>3, ZenonT(30) DEF Block, SoftSwitch
    <3>2. q # NoProc => q \in ProcSlots /\ st[q] = "READY"
      BY <3>1, Zenon DEF Picks, First
    <3>. QED
      BY <3>1, <3>2, Zenon
  <2>3. \A p \in ProcSlots : state'[p] # state[p] =>
          /\ state'[p] \in {"READY", "RUNNING", "BLOCKED"} /\ state[p] # "UNUSED"
          /\ wpid[p] = 0
    BY <2>1, <2>2, <1>1 DEF Ready, Queued, WaitInv
  <2>. QED
    BY <2>3, <1>1, WaitKeptAll, Zenon DEF Active
<1>. QED
  BY <1>2, <1>3, Zenon

\* A thread that ends is nobody's awaited child.
LEMMA WaitThreadExit ==
  ASSUME IInv, WaitInv, ThreadExit
  PROVE  WaitInv'
<1>1. /\ UNCHANGED <<pid, parent, thr>> /\ state \in [ProcSlots -> States]
      /\ cpu \in ProcSlots /\ thr[cpu] /\ wpid' = DropWaits({cpu})
  BY Zenon DEF ThreadExit, InUser, IInv, TypeOK
<1>2. PICK W \in SUBSET Queued(state) : state' = Ready(Release(state, {cpu}), W)
  BY Zenon DEF ThreadExit, SoftSwitch
<1>3. \A p \in ProcSlots : /\ wpid'[p] = IF p = cpu THEN 0 ELSE wpid[p]
                           /\ state'[p] = IF p \in W THEN "READY"
                                          ELSE IF p = cpu THEN "UNUSED" ELSE state[p]
  BY <1>1, <1>2, Zenon DEF DropWaits, Ready, Release
<1>4. \A p \in W : state[p] = "BLOCKED" /\ wpid[p] = 0
  BY <1>2, Zenon DEF Queued
<1>5. \A p \in ProcSlots : wpid'[p] # 0 => wpid'[p] = wpid[p] /\ state'[p] = "BLOCKED"
  BY <1>3, <1>4 DEF WaitInv
<1>6. \A p, c \in ProcSlots : Awaited(p, c) => c \in Active(state')
  BY <1>1, <1>3, Zenon DEF Awaited, Active
<1>7. \A p \in ProcSlots : state'[p] # "UNUSED" => state[p] # "UNUSED"
  BY <1>3, <1>4, Zenon
<1>. QED
  BY <1>1, <1>5, <1>6, <1>7, WaitKept, Zenon

\* A leader that exits is awaited by at most one process, its parent, and that
\* one is resumed.  Its threads are nobody's awaited children.
LEMMA WaitExit ==
  ASSUME IInv, WaitInv, Exit
  PROVE  WaitInv'
<1>. DEFINE G == GroupOf(cpu)
            st(W) == [Ready(Release(state, G), W) EXCEPT ![cpu] = "ZOMBIE"]
<1>1. /\ UNCHANGED <<pid, parent, thr>> /\ state \in [ProcSlots -> States]
      /\ cpu \in ProcSlots /\ ~thr[cpu] /\ wpid \in [ProcSlots -> 0..MaxPid]
  BY Zenon DEF Exit, InUser, IInv, TypeOK
<1>2. state[cpu] = "RUNNING" /\ wpid[cpu] = 0
  BY <1>1, UserRunning, Zenon DEF WaitInv
<1>3. PICK W \in SUBSET (Queued(state) \ G), q \in ProcSlots \cup {NoProc} :
        /\ FindsWaiter(st(W), pid[cpu], q)
        /\ q # NoProc => /\ state' = [st(W) EXCEPT ![q] = "RUNNING"]
                         /\ wpid' = [DropWaits(G) EXCEPT ![q] = 0]
        /\ q = NoProc => state' = Ready(st(W), {}) /\ wpid' = DropWaits(G)
  BY ZenonT(30) DEF Exit, SoftSwitch
<1>4. \A p \in W : p \in ProcSlots /\ state[p] = "BLOCKED" /\ wpid[p] = 0 /\ p \notin G
  BY <1>3, Zenon DEF Queued
<1>5. \A p \in G : p \in ProcSlots /\ thr[p] /\ p # cpu /\ state[p] # "UNUSED"
  BY Zenon DEF GroupOf
<1>6. \A p \in ProcSlots : st(W)[p] = IF p = cpu THEN "ZOMBIE" ELSE IF p \in W THEN "READY"
                                      ELSE IF p \in G THEN "UNUSED" ELSE state[p]
  BY <1>1, Zenon DEF Ready, Release
<1>7. \A p \in ProcSlots : DropWaits(G)[p] = IF p \in G THEN 0 ELSE wpid[p]
  BY Zenon DEF DropWaits
<1>8. q # NoProc => q \in ProcSlots /\ st(W)[q] = "BLOCKED" /\ ~thr[q] /\ wpid[q] = pid[cpu]
  BY <1>3, Zenon DEF FindsWaiter, First
<1>9. \A p \in ProcSlots : st(W)[p] = "BLOCKED" /\ ~thr[p] /\ wpid[p] = pid[cpu] => q # NoProc
  BY <1>3, Contexts, Zenon DEF FindsWaiter, First
<1>. HIDE DEF G, st
<1>10. \A p \in ProcSlots :
         /\ state'[p] = IF q # NoProc /\ p = q THEN "RUNNING" ELSE st(W)[p]
         /\ wpid'[p] = IF q # NoProc /\ p = q THEN 0 ELSE IF p \in G THEN 0 ELSE wpid[p]
  <2>1. CASE q # NoProc
    <3>1. st(W) \in [ProcSlots -> States] /\ DropWaits(G) \in [ProcSlots -> 0..MaxPid]
      <4>1. st(W) \in [ProcSlots -> States]
        BY <1>1, Zenon DEF st, Ready, Release, States
      <4>2. DropWaits(G) \in [ProcSlots -> 0..MaxPid]
        BY <1>1, SchedAssumption DEF DropWaits, SchedAssumption
      <4>. QED
        BY <4>1, <4>2, Zenon
    <3>. QED
      BY <2>1, <3>1, <1>3, <1>7
  <2>2. CASE q = NoProc
    BY <2>2, <1>3, <1>7 DEF Ready
  <2>. QED
    BY <2>1, <2>2, Zenon
<1>11. \A p \in ProcSlots : wpid'[p] # 0 => wpid'[p] = wpid[p] /\ state'[p] = "BLOCKED"
  BY <1>2, <1>4, <1>6, <1>10, Zenon DEF WaitInv
<1>12. ASSUME NEW p \in ProcSlots, NEW c \in ProcSlots, wpid'[p] # 0, ~thr[p], Awaited(p, c)
       PROVE  c \in Active(state')
  <2>1. p \notin G /\ wpid'[p] = wpid[p] /\ state'[p] = "BLOCKED" /\ c \notin G
    BY <1>5, <1>11, <1>12, Zenon DEF Awaited
  <2>2. c # cpu
    <3>. SUFFICES ASSUME c = cpu PROVE FALSE
      BY Zenon
    <3>1. wpid[p] = pid[cpu] /\ parent[cpu] = pid[p]
      BY <1>12, Zenon DEF Awaited
    <3>2. p # q \/ q = NoProc
      BY <1>10, <1>12, Zenon
    <3>3. st(W)[p] = "BLOCKED"
      BY <2>1, <3>2, <1>10, Zenon
    <3>4. q # NoProc
      BY <3>1, <3>3, <1>9, <1>12, Zenon
    <3>5. q \in ProcSlots /\ st(W)[q] = "BLOCKED" /\ ~thr[q] /\ wpid[q] = pid[cpu]
      BY <3>4, <1>8, Zenon
    <3>6. state[q] = "BLOCKED" /\ wpid[q] # 0
      <4>1. pid[cpu] # 0
        BY <3>1, <1>12, <2>1, Zenon
      <4>. QED
        BY <4>1, <3>5, <1>6, Zenon
    <3>7. PICK d \in ProcSlots : Awaited(q, d)
      BY <3>5, <3>6, Zenon DEF WaitInv
    <3>8. d = cpu
      <4>1. Leader(d) /\ Leader(cpu) /\ pid[d] = pid[cpu]
        BY <3>5, <3>7, <1>1, <1>2, Zenon DEF Leader, Awaited, Active
      <4>. QED
        BY <4>1, <1>1, Zenon DEF WaitInv
    <3>9. pid[q] = pid[p]
      BY <3>1, <3>7, <3>8, Zenon DEF Awaited
    <3>10. Leader(p) /\ Leader(q)
      BY <3>5, <3>6, <1>12, <2>1, Zenon DEF Leader, WaitInv
    <3>. QED
      BY <3>2, <3>4, <3>5, <3>9, <3>10, Zenon DEF WaitInv
  <2>. QED
    BY <2>1, <2>2, <1>4, <1>6, <1>10, <1>12, Zenon DEF Awaited, Active
<1>13. \A p \in ProcSlots : state'[p] # "UNUSED" => state[p] # "UNUSED"
  BY <1>2, <1>4, <1>6, <1>8, <1>10
<1>. QED
  BY <1>1, <1>11, <1>12, <1>13, WaitKept, Zenon

\* Every step keeps the parked leaders and their children together.
LEMMA WaitStep == ~Faults /\ IInv /\ WaitInv /\ [Next]_vars => WaitInv'
<1>. SUFFICES ASSUME ~Faults, IInv, WaitInv, [Next]_vars PROVE WaitInv'
  BY Zenon
<1>1. CASE Tick
  <2>1. PICK W \in SUBSET Queued(state) :
          TickMainSwitch(W) \/ TickToUser(W) \/ TickToMain(W) \/ TickKernel(W)
    BY <1>1, Zenon DEF Tick
  <2>2. ~TickMainSwitch(W)
    BY DEF TickMainSwitch, IInv, FrameInv, CpuInv
  <2>. QED
    BY <2>1, <2>2, WaitTick, Zenon
<1>2. CASE LoadProgram \/ LoadFails \/ RunProgram
  BY <1>2, WaitLaunch, Zenon
<1>3. CASE Fork(FALSE) \/ Fork(TRUE)
  BY <1>3, WaitFork, ZenonT(30)
<1>4. CASE ForkFails \/ UNCHANGED vars
  BY <1>4, SMTT(60) DEF ForkFails, vars, table, WaitInv, Awaited, Active, Leader
<1>5. CASE Wait4Reap \/ Wait4Run
  BY <1>5, WaitWait4, Zenon
<1>6. CASE Block \/ Wake
  BY <1>6, WaitBlock, Zenon
<1>7. CASE ThreadExit \/ Exit
  BY <1>7, WaitThreadExit, WaitExit, Zenon
<1>8. CASE Fault
  BY ZenonT(30), <1>8 DEF Fault
<1>. QED
  BY <1>1, <1>2, <1>3, <1>4, <1>5, <1>6, <1>7, <1>8, Zenon DEF Next

\* A leader parked in wait4 waits for a child that can still exit, and no exit
\* leaves its parent parked: the waiter that process_exit() finds is the only one
\* there is.
THEOREM WaitersWake == ~Faults => (Spec => []WaiterHasLiveChild)
<1>1. Init => WaitInv
  <2>1. Init => wpid = [p \in ProcSlots |-> 0] /\ state = [p \in ProcSlots |-> "UNUSED"]
    BY DEF Init
  <2>2. Init => \A p \in ProcSlots : wpid[p] = 0 /\ state[p] = "UNUSED"
    BY <2>1, Zenon
  <2>. QED
    BY <2>2, Zenon DEF WaitInv, Leader
<1>2. WaitInv => WaiterHasLiveChild
  BY Zenon DEF WaitInv, WaiterHasLiveChild, Awaited
<1>3. CASE ~Faults
  <2>1. IInv /\ WaitInv /\ [Next]_vars => WaitInv'
    BY <1>3, WaitStep, Zenon
  <2>. QED
    BY <1>1, <1>2, <1>3, <2>1, Invariance, PTL DEF Spec
<1>. QED
  BY <1>3, Zenon
============================================================================
