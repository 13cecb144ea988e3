---------------------------- MODULE IntLockProofs ----------------------------
(* Proofs about IntLock, for any number of threads and interrupts. *)
EXTENDS IntLock, TLAPS

\* Arithmetic of os_uint_t stays within its width.
LEMMA ModRange ==
    ASSUME NEW a \in Nat, NEW m \in Nat \ {0}
    PROVE  a % m \in 0 .. (m - 1)
OBVIOUS

\* Every step keeps the types, for any depth of nesting.
LEMMA TypeStep == TypeOK /\ NestInv /\ [Next]_vars => TypeOK' /\ NestInv'
<1>. SUFFICES ASSUME TypeOK, NestInv, [Next]_vars PROVE TypeOK' /\ NestInv'
  OBVIOUS
<1>0. /\ (lock_depth + 1) % UintMod \in 0 .. (UintMod - 1)
      /\ (lock_depth + (UintMod - 1)) % UintMod \in 0 .. (UintMod - 1)
  BY ModRange, IntLockAssumption DEF TypeOK
<1>. USE IntLockAssumption DEF TypeOK, NestInv, Ctx, PC, goto
<1>1. CASE lock_read
  BY <1>0, <1>1 DEF lock_read
<1>2. CASE lock_test
  BY <1>2 DEF lock_test
<1>3. CASE lock_store
  BY <1>3 DEF lock_store
<1>4. CASE unlock_count
  BY <1>0, <1>4 DEF unlock_count
<1>5. CASE unlock_enable
  <2>1. int_enabled' \in BOOLEAN
    BY <1>5 DEF unlock_enable
  <2>2. /\ nest' = [nest EXCEPT ![top] = @ - 1]
        /\ pc' = [pc EXCEPT ![top] = "body"]
        /\ UNCHANGED <<lock_depth, top, below, local>>
    BY <1>5 DEF unlock_enable
  <2>3. nest[top] > 0
    BY <1>5 DEF unlock_enable
  <2>. QED
    BY <2>1, <2>2, <2>3
<1>6. CASE unload_open
  BY <1>6 DEF unload_open
<1>7. CASE unload_close
  BY <1>7 DEF unload_close
<1>10. CASE unload_restore
  BY <1>10 DEF unload_restore
<1>8. CASE CpuNext
  BY <1>8 DEF CpuNext, interrupt, interrupt_return, context_switch, Active
<1>9. CASE UNCHANGED vars
  BY <1>9 DEF vars
<1>. QED
  BY <1>1, <1>2, <1>3, <1>4, <1>5, <1>6, <1>7, <1>8, <1>9, <1>10
  DEF Next, LockNext, UnlockNext, UnloadNext

\* The types hold throughout: lock_depth stays within the width of os_uint_t
\* whatever the nesting.
THEOREM TypeCorrect == Spec => []TypeOK
<1>1. Init => TypeOK /\ NestInv
  BY IntLockAssumption DEF Init, TypeOK, NestInv, PC, Ctx
<1>. QED
  BY <1>1, TypeStep, PTL DEF Spec

\* Without nesting, every step of every context keeps LockInv.
LEMMA LockStep ==
    ASSUME MaxNest = 1, TypeOK, NestInv, LockInv, [Next]_vars
    PROVE  LockInv'
<1>0. 1 % UintMod = 1
  BY IntLockAssumption
<1>. USE IntLockAssumption DEF TypeOK, LockInv, Preemptible, Masked, Ctx, PC, goto
<1>1. CASE lock_read
  <2>1. int_enabled /\ lock_depth = 0 /\ nest[top] = 0
    BY <1>1 DEF lock_read
  <2>. QED
    BY <1>0, <1>1, <2>1 DEF lock_read
<1>2. CASE lock_test
  BY <1>2 DEF lock_test
<1>3. CASE lock_store
  BY <1>3 DEF lock_store
<1>4. CASE unlock_count
  <2>1. lock_depth = 1 /\ (lock_depth + (UintMod - 1)) % UintMod = 0
    BY <1>4 DEF unlock_count
  <2>. QED
    BY <1>4, <2>1 DEF unlock_count
<1>5. CASE unlock_enable
  <2>1. lock_depth = 0 /\ nest[top] = 1
    BY <1>5 DEF unlock_enable
  <2>2. int_enabled' = TRUE /\ lock_depth' = 0 /\ nest'[top] = 0
    BY <1>5, <2>1 DEF unlock_enable
  <2>. QED
    BY <1>5, <2>1, <2>2 DEF unlock_enable
<1>6. CASE unload_open
  BY <1>6 DEF unload_open
<1>7. CASE unload_close
  BY <1>7 DEF unload_close
<1>8. CASE unload_restore
  BY <1>8 DEF unload_restore
<1>9. CASE \E i \in Isr : interrupt(i)
  BY <1>9 DEF interrupt, Active
<1>10. CASE interrupt_return
  BY <1>10 DEF interrupt_return, Active
<1>11. CASE \E t \in Thread : context_switch(t)
  BY <1>11 DEF context_switch
<1>12. CASE UNCHANGED vars
  BY <1>12 DEF vars
<1>. QED
  BY <1>1, <1>2, <1>3, <1>4, <1>5, <1>6, <1>7, <1>8, <1>9, <1>10, <1>11, <1>12
  DEF Next, LockNext, UnlockNext, UnloadNext, CpuNext

\* When critical sections do not nest, every step of every context keeps
\* LockInv: whoever is preempted can be, and a depth read before is not stale.
THEOREM LockInvariant ==
    ASSUME MaxNest = 1
    PROVE  Spec => [](TypeOK /\ LockInv)
<1>1. Init => TypeOK /\ NestInv /\ LockInv
  BY IntLockAssumption
  DEF Init, TypeOK, NestInv, LockInv, Preemptible, Masked, PC, Ctx
<1>2. TypeOK /\ NestInv /\ LockInv /\ [Next]_vars
        => TypeOK' /\ NestInv' /\ LockInv'
  BY TypeStep, LockStep
<1>. QED
  BY <1>1, <1>2, PTL DEF Spec

\* The lock does what the rest of the kernel rests on: when critical sections do
\* not nest, no interrupt and no thread gets in between the steps of one.
THEOREM Exclusion ==
    ASSUME MaxNest = 1
    PROVE  Spec => []CriticalExclusive
<1>1. TypeOK /\ LockInv => CriticalExclusive
  BY DEF TypeOK, LockInv, Preemptible, Masked, CriticalExclusive, InCritical, PC, Ctx
<1>. QED
  BY <1>1, LockInvariant, PTL

\* Outside critical sections interrupts are enabled and the depth is back at
\* zero, whatever preemption points were in between.
THEOREM Balance ==
    ASSUME MaxNest = 1
    PROVE  Spec => []LockBalanced
<1>1. TypeOK /\ LockInv => LockBalanced
  BY DEF TypeOK, LockInv, Preemptible, Masked, LockBalanced, PC, Ctx
<1>. QED
  BY <1>1, LockInvariant, PTL
=============================================================================
