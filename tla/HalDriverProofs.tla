-------------------------- MODULE HalDriverProofs --------------------------
(***************************************************************************)
(* Proofs about HalDriver, for any sets of instances and hardware drivers: *)
(* what the lock guarantees to an orderly application.                     *)
(***************************************************************************)
EXTENDS HalDriver, SequenceTheorems, TLAPS

(* The types of everything but the list of drivers.                        *)
FieldsOK ==
  /\ driver \in [Instances -> Drivers \cup {None}]
  /\ curr_inst \in [Drivers -> Instances \cup {None}]
  /\ call \in [Instances -> Calls]
  /\ transfer \in [Drivers -> Instances \cup {None}]
  /\ notified \in Instances \cup {None}
  /\ orderly \in BOOLEAN

(* One call at a time; it works on the driver of its instance, for which   *)
(* no transfer is in progress.                                             *)
CallsAlone ==
  \A i \in Instances : call[i] # NoCall =>
    /\ \A j \in Instances : call[j] # NoCall => j = i
    /\ call[i].drv = driver[i]
    /\ \A d \in Drivers : transfer[d] # i
    /\ call[i].at = "lock" => curr_inst[call[i].drv] = None

(* A driver is locked only for an instance that is registered to it, and   *)
(* instances are registered only to drivers in the list.                   *)
LockedForOwn ==
  \A d \in Drivers : curr_inst[d] # None => driver[curr_inst[d]] = d

RegisteredInList ==
  \A i \in Instances : driver[i] # None => Contains(hw_driver_list, driver[i])

OrderlyInv == CallsAlone /\ LockedForOwn /\ RegisteredInList

(* GPIO has no transfers, whatever the application does.                   *)
GpioOnlySync ==
  peripheral = "gpio" =>
    /\ \A i \in Instances : call[i] # NoCall => call[i].kind = "sync"
    /\ \A d \in Drivers : transfer[d] = None

IInv ==
  /\ FieldsOK
  /\ hw_driver_list \in Seq(Drivers)
  /\ orderly => OrderlyInv
  /\ GpioOnlySync
  /\ TransferHoldsLock
  /\ CallHoldsLock

LEMMA CallFields ==
  ASSUME FieldsOK, NEW i \in Instances, call[i] # NoCall
  PROVE  /\ call[i].drv \in Drivers
         /\ call[i].at \in {"lock", "use"}
         /\ call[i].kind \in {"sync", "async"}
  BY DEF FieldsOK, Calls

LEMMA ContainsAppend ==
  ASSUME NEW s \in Seq(Drivers), NEW d \in Drivers, NEW e \in Drivers, Contains(s, e)
  PROVE  Append(s, d) \in Seq(Drivers) /\ Contains(Append(s, d), e)
  BY AppendProperties DEF Contains

LEMMA RemoveAtType ==
  ASSUME NEW s \in Seq(Drivers), NEW n \in DOMAIN s
  PROVE  RemoveAt(s, n) \in Seq(Drivers)
  BY DEF RemoveAt

LEMMA ContainsRemoveAt ==
  ASSUME NEW s \in Seq(Drivers), NEW n \in DOMAIN s, NEW e, e # s[n], Contains(s, e)
  PROVE  Contains(RemoveAt(s, n), e)
  <1> DEFINE front == SubSeq(s, 1, n - 1)
             back == SubSeq(s, n + 1, Len(s))
  <1>1. PICK k \in 1 .. Len(s) : s[k] = e
    BY DEF Contains
  <1>2. n \in 1 .. Len(s) /\ k # n
    BY <1>1
  <1>3. front \in Seq(Drivers) /\ Len(front) = n - 1 /\ \A m \in 1 .. n - 1 : front[m] = s[m]
    BY <1>2
  <1>4. /\ back \in Seq(Drivers) /\ Len(back) = Len(s) - n
        /\ \A m \in 1 .. Len(s) - n : back[m] = s[m + n]
    BY <1>2
  <1> HIDE DEF front, back
  <1> DEFINE both == front \o back
  <1>5. /\ both \in Seq(Drivers)
        /\ Len(both) = Len(front) + Len(back)
        /\ \A m \in 1 .. Len(front) + Len(back) :
             both[m] = IF m <= Len(front) THEN front[m] ELSE back[m - Len(front)]
    BY <1>3, <1>4, ConcatProperties
  <1>6. both = RemoveAt(s, n)
    BY DEF RemoveAt, front, back
  <1> HIDE DEF both
  <1>7. Len(front) + Len(back) = Len(s) - 1
    BY <1>1, <1>2, <1>3, <1>4
  <1>8. /\ both \in Seq(Drivers)
        /\ Len(both) = Len(s) - 1
        /\ \A m \in 1 .. Len(s) - 1 :
             both[m] = IF m <= n - 1 THEN front[m] ELSE back[m - (n - 1)]
    BY <1>3, <1>5, <1>7
  <1>9. CASE k < n
    <2>1. k \in 1 .. n - 1 /\ k \in 1 .. Len(s) - 1 /\ k <= n - 1
      BY <1>1, <1>2, <1>9
    <2>2. both[k] = e
      BY <1>1, <1>3, <1>8, <2>1
    <2>3. k \in 1 .. Len(both)
      BY <1>8, <2>1
    <2> QED
      BY <1>6, <2>2, <2>3 DEF Contains
  <1>10. CASE k > n
    <2>1. k - 1 \in 1 .. Len(s) - 1 /\ ~ (k - 1 <= n - 1) /\ k - n \in 1 .. Len(s) - n
      BY <1>1, <1>2, <1>10
    <2>2. both[k - 1] = e
      <3>1. both[k - 1] = back[(k - 1) - (n - 1)]
        BY <1>8, <2>1
      <3>2. (k - 1) - (n - 1) = k - n /\ (k - n) + n = k
        BY <1>1, <1>2
      <3>3. back[k - n] = s[(k - n) + n]
        BY <1>4, <2>1
      <3> QED
        BY <1>1, <3>1, <3>2, <3>3
    <2>3. k - 1 \in 1 .. Len(both)
      BY <1>8, <2>1
    <2> QED
      BY <1>6, <2>2, <2>3 DEF Contains
  <1> QED
    BY <1>1, <1>2, <1>9, <1>10

LEMMA InitIInv == Init => IInv
  BY NoneAssumption, EmptySeq
  DEF Init, IInv, FieldsOK, Calls, NoCall, OrderlyInv, CallsAlone, LockedForOwn,
      RegisteredInList, GpioOnlySync, TransferHoldsLock, CallHoldsLock, UserIsCurrent

-----------------------------------------------------------------------------
(* One lemma per group of actions; the application's part first.           *)

LEMMA DriverListStep ==
  ASSUME IInv, NEW d \in Drivers,
         SystemRegisterHwDriver(d) \/ SystemUnregisterHwDriver(d)
  PROVE  IInv'
  <1> USE DEF IInv
  <1>1. CASE SystemRegisterHwDriver(d)
    <2>1. hw_driver_list' \in Seq(Drivers)
      BY <1>1, AppendProperties DEF SystemRegisterHwDriver
    <2>2. orderly => RegisteredInList'
      BY <1>1, ContainsAppend DEF SystemRegisterHwDriver, OrderlyInv, RegisteredInList, FieldsOK
    <2> QED
      BY <1>1, <2>1, <2>2
      DEF SystemRegisterHwDriver, FieldsOK, OrderlyInv, CallsAlone, LockedForOwn,
          GpioOnlySync, TransferHoldsLock, CallHoldsLock, UserIsCurrent
  <1>2. CASE SystemUnregisterHwDriver(d)
    <2>1. PICK n \in DOMAIN hw_driver_list :
            hw_driver_list[n] = d /\ hw_driver_list' = RemoveAt(hw_driver_list, n)
      BY <1>2 DEF SystemUnregisterHwDriver
    <2>2. hw_driver_list' \in Seq(Drivers)
      BY <2>1, RemoveAtType
    <2>3. orderly' \in BOOLEAN /\ (orderly' => orderly /\ \A i \in Instances : driver[i] # d)
      BY <1>2 DEF SystemUnregisterHwDriver, Demand, FieldsOK
    <2>4. orderly' => RegisteredInList'
      BY <1>2, <2>1, <2>3, ContainsRemoveAt
      DEF SystemUnregisterHwDriver, OrderlyInv, RegisteredInList, FieldsOK
    <2> QED
      BY <1>2, <2>2, <2>3, <2>4
      DEF SystemUnregisterHwDriver, FieldsOK, OrderlyInv, CallsAlone, LockedForOwn,
          GpioOnlySync, TransferHoldsLock, CallHoldsLock, UserIsCurrent
  <1> QED
    BY <1>1, <1>2

LEMMA RegistrationStep ==
  ASSUME IInv, NEW i \in Instances, NEW d \in Drivers, RegisterInstance(i, d)
  PROVE  IInv'
  <1> USE NoneAssumption DEF IInv
  <1>1. /\ UNCHANGED <<peripheral, hw_driver_list, curr_inst, call, transfer, notified>>
        /\ orderly' \in BOOLEAN
        /\ orderly' => orderly /\ call[i] = NoCall /\ ~ InUse(i)
    BY DEF RegisterInstance, Demand, FieldsOK
  <1>2. driver' = [driver EXCEPT ![i] = d] /\ Contains(hw_driver_list, d)
    BY DEF RegisterInstance
  <1>3. FieldsOK'
    BY <1>1, <1>2 DEF FieldsOK
  <1>4. ASSUME orderly' PROVE OrderlyInv'
    <2>1. CallsAlone'
      BY <1>1, <1>2, <1>4 DEF OrderlyInv, CallsAlone, FieldsOK
    <2>2. LockedForOwn'
      BY <1>1, <1>2, <1>4 DEF OrderlyInv, LockedForOwn, InUse, FieldsOK
    <2>3. RegisteredInList'
      BY <1>1, <1>2, <1>4 DEF OrderlyInv, RegisteredInList, FieldsOK
    <2> QED
      BY <2>1, <2>2, <2>3 DEF OrderlyInv
  <1> QED
    BY <1>1, <1>3, <1>4 DEF GpioOnlySync, TransferHoldsLock, CallHoldsLock, UserIsCurrent

(* An instance that is unregistered is registered to no driver at all, so  *)
(* this holds without any driver as well.                                  *)
LEMMA UnregistrationStep ==
  ASSUME IInv, NEW i \in Instances, UnregisterInstance(i)
  PROVE  IInv'
  <1> USE NoneAssumption DEF IInv
  <1>1. /\ UNCHANGED <<peripheral, hw_driver_list, curr_inst, call, transfer, notified>>
        /\ orderly' \in BOOLEAN
        /\ orderly' => orderly /\ call[i] = NoCall /\ ~ InUse(i)
        /\ driver' = [driver EXCEPT ![i] = None]
    BY DEF UnregisterInstance, Demand, FieldsOK
  <1>2. FieldsOK'
    BY <1>1 DEF FieldsOK
  <1>3. orderly' => OrderlyInv'
    BY <1>1 DEF OrderlyInv, CallsAlone, LockedForOwn, RegisteredInList, InUse, FieldsOK
  <1> QED
    BY <1>1, <1>2, <1>3 DEF GpioOnlySync, TransferHoldsLock, CallHoldsLock, UserIsCurrent

LEMMA CallStep ==
  ASSUME IInv, NEW i \in Instances, NEW p \in Peripherals, NEW kind \in {"sync", "async"},
         Call(p, kind, i), p = "gpio" => kind = "sync"
  PROVE  IInv'
  <1> USE NoneAssumption DEF IInv
  <1> DEFINE d == driver[i]
             new == [at |-> IF curr_inst[d] = None THEN "lock" ELSE "use",
                     kind |-> kind, drv |-> d]
  <1>1. /\ d \in Drivers
        /\ UNCHANGED <<peripheral, hw_driver_list, driver, curr_inst, transfer, notified>>
        /\ call[i] = NoCall
        /\ curr_inst[d] = i \/ curr_inst[d] = None
        /\ call' = [call EXCEPT ![i] = new]
    BY DEF Call, FieldsOK, LockSucceeds
  <1>2. /\ orderly' \in BOOLEAN
        /\ orderly' => /\ orderly
                       /\ \A j \in Instances : call[j] = NoCall
                       /\ \A e \in Drivers : transfer[e] # i
    BY DEF Call, Demand, FieldsOK
  <1>3. /\ new \in Calls /\ new # NoCall /\ new.drv = d
        /\ new.at = "lock" <=> curr_inst[d] = None
        /\ new.at = "use" <=> curr_inst[d] # None
    BY <1>1 DEF Calls, NoCall
  <1> HIDE DEF new
  <1>4. /\ call'[i] = new
        /\ \A j \in Instances : j # i => call'[j] = call[j]
        /\ call' \in [Instances -> Calls]
    BY <1>1, <1>3 DEF FieldsOK
  <1>5. FieldsOK'
    BY <1>1, <1>2, <1>4 DEF FieldsOK
  <1>6. orderly' => CallsAlone'
    BY <1>1, <1>2, <1>3, <1>4 DEF CallsAlone
  <1>7. orderly' => LockedForOwn' /\ RegisteredInList'
    BY <1>1, <1>2 DEF OrderlyInv, LockedForOwn, RegisteredInList
  <1>8. CallHoldsLock'
    BY <1>1, <1>2, <1>3, <1>4 DEF CallHoldsLock, UserIsCurrent, NoCall
  <1>9. GpioOnlySync'
    <2>1. peripheral = p
      BY DEF Call
    <2>2. new.kind = kind
      BY DEF new
    <2> QED
      BY <1>1, <1>4, <2>1, <2>2 DEF GpioOnlySync
  <1> QED
    BY <1>1, <1>2, <1>5, <1>6, <1>7, <1>8, <1>9 DEF OrderlyInv, TransferHoldsLock

LEMMA LockStep ==
  ASSUME IInv, NEW i \in Instances, LockDriver(i)
  PROVE  IInv'
  <1> USE NoneAssumption DEF IInv
  <1> DEFINE d == call[i].drv
  <1>1. call[i] # NoCall /\ call[i].at = "lock"
    BY DEF LockDriver, NoCall
  <1>2. /\ d \in Drivers
        /\ call[i] \in [at : {"lock", "use"}, kind : {"sync", "async"}, drv : Drivers]
    BY <1>1 DEF FieldsOK, Calls
  <1>3. /\ UNCHANGED <<peripheral, hw_driver_list, driver, transfer, notified, orderly>>
        /\ curr_inst' = [curr_inst EXCEPT ![d] = i]
        /\ call' = [call EXCEPT ![i].at = "use"]
    BY DEF LockDriver, Lock
  <1>4. /\ call'[i].at = "use" /\ call'[i].drv = d /\ call'[i] # NoCall
        /\ \A j \in Instances : j # i => call'[j] = call[j]
        /\ call' \in [Instances -> Calls]
    BY <1>2, <1>3 DEF FieldsOK, Calls, NoCall
  <1> HIDE DEF d
  <1>5. FieldsOK'
    BY <1>2, <1>3, <1>4 DEF FieldsOK
  <1>6. ASSUME orderly' PROVE OrderlyInv'
    <2>1. CallsAlone /\ d = driver[i] /\ \A j \in Instances : call[j] # NoCall => j = i
      BY <1>1, <1>3, <1>6 DEF OrderlyInv, CallsAlone, d
    <2>2. CallsAlone'
      BY <1>1, <1>3, <1>4, <2>1 DEF CallsAlone
    <2>3. LockedForOwn' /\ RegisteredInList'
      BY <1>2, <1>3, <1>6, <2>1 DEF OrderlyInv, LockedForOwn, RegisteredInList, FieldsOK
    <2> QED
      BY <2>2, <2>3 DEF OrderlyInv
  <1>7. ASSUME orderly' PROVE curr_inst[d] = None
    BY <1>1, <1>3, <1>7 DEF OrderlyInv, CallsAlone, d
  <1>8. TransferHoldsLock'
    BY <1>2, <1>3, <1>7 DEF TransferHoldsLock, FieldsOK
  <1>9. CallHoldsLock'
    BY <1>2, <1>3, <1>4, <1>7 DEF CallHoldsLock, UserIsCurrent, FieldsOK, OrderlyInv, CallsAlone, NoCall, d
  <1>10. GpioOnlySync'
    <2>1. call'[i].kind = call[i].kind
      BY <1>2, <1>3 DEF FieldsOK
    <2> QED
      BY <1>1, <1>3, <1>4, <2>1 DEF GpioOnlySync
  <1> QED
    BY <1>3, <1>5, <1>6, <1>8, <1>9, <1>10

LEMMA EndSyncStep ==
  ASSUME IInv, NEW i \in Instances, EndSync(i)
  PROVE  IInv'
  <1> USE NoneAssumption DEF IInv
  <1> DEFINE d == call[i].drv
  <1>1. call[i] # NoCall /\ call[i].at = "use"
    BY DEF EndSync, NoCall
  <1>2. d \in Drivers
    BY <1>1, CallFields
  <1>3. /\ UNCHANGED <<peripheral, hw_driver_list, driver, transfer, notified, orderly>>
        /\ curr_inst' = [curr_inst EXCEPT ![d] = None]
        /\ call' = [call EXCEPT ![i] = NoCall]
    BY DEF EndSync, UnlockDriver
  <1>4. FieldsOK'
    BY <1>2, <1>3 DEF FieldsOK, Calls
  <1>5. ASSUME orderly'
        PROVE  /\ CallsAlone /\ LockedForOwn /\ RegisteredInList
               /\ \A j \in Instances : call[j] # NoCall => j = i
               /\ peripheral # "gpio" => curr_inst[d] = i
               /\ \A x \in Drivers : transfer[x] # i
    BY <1>1, <1>3, <1>5 DEF OrderlyInv, CallsAlone, CallHoldsLock, UserIsCurrent
  <1> HIDE DEF d
  <1>6. ASSUME NEW j \in Instances, orderly'
        PROVE  call'[j] = NoCall
    BY <1>3, <1>5, <1>6 DEF FieldsOK
  <1>7. orderly' => OrderlyInv'
    BY <1>2, <1>3, <1>5, <1>6
    DEF OrderlyInv, CallsAlone, LockedForOwn, RegisteredInList, FieldsOK
  <1>8. TransferHoldsLock'
    BY <1>2, <1>3, <1>5 DEF GpioOnlySync, TransferHoldsLock, FieldsOK
  <1>9. CallHoldsLock'
    BY <1>6 DEF CallHoldsLock, UserIsCurrent, NoCall
  <1>10. GpioOnlySync'
    BY <1>3 DEF GpioOnlySync, FieldsOK
  <1> QED
    BY <1>3, <1>4, <1>7, <1>8, <1>9, <1>10

LEMMA EndAsyncStep ==
  ASSUME IInv, NEW i \in Instances, EndAsync(i)
  PROVE  IInv'
  <1> USE NoneAssumption DEF IInv
  <1> DEFINE d == call[i].drv
  <1>1. call[i] # NoCall /\ call[i].at = "use"
    BY DEF EndAsync, NoCall
  <1>2. d \in Drivers
    BY <1>1, CallFields
  <1>0. peripheral # "gpio"
    BY <1>1 DEF EndAsync, GpioOnlySync
  <1>3. /\ UNCHANGED <<peripheral, hw_driver_list, driver, notified, orderly>>
        /\ IF peripheral = "spi" THEN curr_inst' = [curr_inst EXCEPT ![d] = None]
                                 ELSE curr_inst' = curr_inst
        /\ transfer' = [transfer EXCEPT ![d] = i] \/ transfer' = transfer
        /\ call' = [call EXCEPT ![i] = NoCall]
    BY DEF EndAsync, LockAfterStart, UnlockDriver
  <1>4. FieldsOK'
    BY <1>2, <1>3 DEF FieldsOK, Calls
  <1>5. ASSUME orderly'
        PROVE  /\ \A j \in Instances : call[j] # NoCall => j = i
               /\ curr_inst[d] = i
    BY <1>0, <1>1, <1>3, <1>5 DEF OrderlyInv, CallsAlone, CallHoldsLock, UserIsCurrent
  <1> HIDE DEF d
  <1>6. ASSUME NEW j \in Instances, orderly'
        PROVE  call'[j] = NoCall
    BY <1>3, <1>5, <1>6 DEF FieldsOK
  <1>7. orderly' => OrderlyInv'
    BY <1>2, <1>3, <1>6
    DEF OrderlyInv, CallsAlone, LockedForOwn, RegisteredInList, FieldsOK
  <1>8. TransferHoldsLock'
    BY <1>2, <1>3, <1>5 DEF TransferHoldsLock, FieldsOK
  <1>9. CallHoldsLock'
    BY <1>6 DEF CallHoldsLock, UserIsCurrent, NoCall
  <1>10. GpioOnlySync'
    BY <1>0, <1>3 DEF GpioOnlySync
  <1> QED
    BY <1>3, <1>4, <1>7, <1>8, <1>9, <1>10

-----------------------------------------------------------------------------
(* While the application is orderly the event of a transfer finds the      *)
(* driver that does it, and finds it locked for the instance that began.   *)

LEMMA EventFindsStarter ==
  ASSUME IInv, orderly, peripheral # "spi", NEW d \in Drivers, transfer[d] # None
  PROVE  /\ curr_inst[d] = transfer[d]
         /\ \E n \in DOMAIN hw_driver_list : Matches(hw_driver_list[n], d)
         /\ \A x \in Drivers : Matches(x, d) => x = d
  <1> USE DEF IInv
  <1>1. curr_inst[d] = transfer[d]
    BY DEF TransferHoldsLock
  <1>2. driver[curr_inst[d]] = d /\ curr_inst[d] \in Instances
    BY <1>1 DEF OrderlyInv, LockedForOwn, FieldsOK
  <1>3. Contains(hw_driver_list, d)
    BY <1>2, NoneAssumption DEF OrderlyInv, RegisteredInList
  <1>4. \E n \in DOMAIN hw_driver_list : Matches(hw_driver_list[n], d)
    BY <1>1, <1>2, <1>3 DEF Contains, Matches
  <1>5. \A x \in Drivers : Matches(x, d) => x = d
    BY DEF Matches, OrderlyInv, LockedForOwn
  <1> QED
    BY <1>1, <1>4, <1>5

(* What an event does to an orderly application: it notifies the instance  *)
(* of the transfer and frees its driver.                                   *)
LEMMA OrderlyEvent ==
  ASSUME IInv, NEW d \in Drivers, OnReceiveEvent(d), orderly'
  PROVE  /\ orderly /\ peripheral # "spi"
         /\ transfer[d] # None
         /\ notified' = transfer[d]
         /\ transfer' = [transfer EXCEPT ![d] = None]
         /\ curr_inst' = [curr_inst EXCEPT ![d] = None]
         /\ UNCHANGED <<peripheral, hw_driver_list, driver, call>>
  <1>1. transfer[d] # None /\ UNCHANGED <<peripheral, hw_driver_list, driver, call>>
    BY DEF OnReceiveEvent
  <1>2. orderly /\ peripheral # "spi"
    BY DEF OnReceiveEvent, Demand
  <1>3. /\ curr_inst[d] = transfer[d]
        /\ \E n \in DOMAIN hw_driver_list : Matches(hw_driver_list[n], d)
        /\ \A x \in Drivers : Matches(x, d) => x = d
    BY <1>1, <1>2, EventFindsStarter
  <1>4. PICK n \in DOMAIN hw_driver_list :
          /\ Matches(hw_driver_list[n], d)
          /\ notified' = curr_inst[hw_driver_list[n]]
          /\ transfer' = [transfer EXCEPT ![d] = None]
          /\ curr_inst' = [curr_inst EXCEPT ![hw_driver_list[n]] = None]
    BY <1>3 DEF OnReceiveEvent, Demand, AfterEvent, UnlockDriver
  <1>5. hw_driver_list[n] = d
    BY <1>3, <1>4 DEF IInv
  <1> QED
    BY <1>1, <1>2, <1>3, <1>4, <1>5

LEMMA EventKeepsFields ==
  ASSUME IInv, NEW d \in Drivers, OnReceiveEvent(d)
  PROVE  FieldsOK'
  <1> USE NoneAssumption DEF IInv
  <1>1. CASE \A n \in DOMAIN hw_driver_list : ~ Matches(hw_driver_list[n], d)
    BY <1>1 DEF OnReceiveEvent, FieldsOK
  <1>2. CASE \E n \in DOMAIN hw_driver_list : Matches(hw_driver_list[n], d)
    <2>1. PICK n \in DOMAIN hw_driver_list :
            LET x == hw_driver_list[n]
                i == curr_inst[x]
            IN  /\ Matches(x, d)
                /\ notified' = i
                /\ \/ /\ transfer' = [transfer EXCEPT ![d] = None]
                      /\ AfterEvent(x)
                      /\ UNCHANGED orderly
                   \/ /\ \E started \in {i, None} :
                           transfer' = [transfer EXCEPT ![d] = started]
                      /\ curr_inst' = [curr_inst EXCEPT ![d] = i, ![x] = None]
                      /\ Demand(FALSE)
      BY <1>2 DEF OnReceiveEvent
    <2> DEFINE x == hw_driver_list[n]
    <2>2. x \in Drivers /\ curr_inst[x] \in Instances
      BY <2>1 DEF Matches, FieldsOK
    <2>3. UNCHANGED <<peripheral, driver, call>>
      BY DEF OnReceiveEvent
    <2> QED
      BY <2>1, <2>2, <2>3 DEF FieldsOK, AfterEvent, UnlockDriver, Demand
  <1> QED
    BY <1>1, <1>2

LEMMA EventStep ==
  ASSUME IInv, NEW d \in Drivers, OnReceiveEvent(d)
  PROVE  IInv'
  <1> USE NoneAssumption DEF IInv
  <1>1. FieldsOK' /\ hw_driver_list' \in Seq(Drivers)
    BY EventKeepsFields DEF OnReceiveEvent
  <1>2. ASSUME orderly'
        PROVE  OrderlyInv' /\ TransferHoldsLock' /\ CallHoldsLock'
    <2>1. /\ orderly /\ peripheral # "spi"
          /\ transfer[d] # None
          /\ transfer' = [transfer EXCEPT ![d] = None]
          /\ curr_inst' = [curr_inst EXCEPT ![d] = None]
          /\ UNCHANGED <<peripheral, hw_driver_list, driver, call>>
      BY <1>2, OrderlyEvent
    <2>2. curr_inst[d] = transfer[d] /\ transfer[d] \in Instances
      BY <2>1 DEF TransferHoldsLock, FieldsOK
    <2>3. CallsAlone'
      BY <2>1 DEF OrderlyInv, CallsAlone, FieldsOK
    <2>4. LockedForOwn' /\ RegisteredInList'
      BY <2>1 DEF OrderlyInv, LockedForOwn, RegisteredInList, FieldsOK
    <2>5. TransferHoldsLock'
      BY <2>1 DEF TransferHoldsLock, FieldsOK
    <2>6. CallHoldsLock'
      <3> SUFFICES ASSUME NEW i \in Instances, call[i].at = "use"
                   PROVE  curr_inst'[call[i].drv] = i
        BY <2>1 DEF CallHoldsLock, UserIsCurrent
      <3>0. peripheral # "gpio"
        BY DEF OnReceiveEvent
      <3>1. call[i] # NoCall
        BY DEF NoCall
      <3>2. curr_inst[call[i].drv] = i /\ transfer[d] # i
        BY <2>1, <3>0, <3>1 DEF CallHoldsLock, UserIsCurrent, OrderlyInv, CallsAlone
      <3> QED
        BY <2>1, <2>2, <3>1, <3>2, CallFields DEF FieldsOK
    <2> QED
      BY <2>3, <2>4, <2>5, <2>6 DEF OrderlyInv
  <1>3. GpioOnlySync'
    BY DEF OnReceiveEvent, GpioOnlySync
  <1> QED
    BY <1>1, <1>2, <1>3 DEF TransferHoldsLock, CallHoldsLock, UserIsCurrent

(* The end of an SPI transfer changes nothing an instance can see.         *)
LEMMA SpiTransferEndsStep ==
  ASSUME IInv, NEW d \in Drivers, SpiTransferEnds(d)
  PROVE  IInv'
  <1> USE NoneAssumption DEF IInv
  <1>1. /\ UNCHANGED <<peripheral, hw_driver_list, driver, curr_inst, call, notified, orderly>>
        /\ peripheral = "spi"
        /\ transfer' = [transfer EXCEPT ![d] = None]
    BY DEF SpiTransferEnds
  <1>2. FieldsOK' /\ CallHoldsLock'
    BY <1>1 DEF FieldsOK, CallHoldsLock, UserIsCurrent
  <1>3. orderly' => OrderlyInv'
    BY <1>1 DEF OrderlyInv, CallsAlone, LockedForOwn, RegisteredInList, FieldsOK
  <1>4. GpioOnlySync'
    BY <1>1 DEF GpioOnlySync
  <1> QED
    BY <1>1, <1>2, <1>3, <1>4 DEF TransferHoldsLock

(* A pin interrupt may unlock a driver in the middle of a call, so GPIO    *)
(* keeps everything else an orderly application can rely on.               *)
LEMMA PinInterruptStep ==
  ASSUME IInv, NEW d \in Drivers, ezGpio_OnReceiveEvent(d)
  PROVE  IInv'
  <1> USE NoneAssumption DEF IInv
  <1>1. PICK n \in DOMAIN hw_driver_list :
          /\ Matches(hw_driver_list[n], d)
          /\ notified' = curr_inst[hw_driver_list[n]]
          /\ UnlockDriver(hw_driver_list[n])
    BY DEF ezGpio_OnReceiveEvent
  <1>2. /\ peripheral = "gpio"
        /\ UNCHANGED <<peripheral, hw_driver_list, driver, call, transfer, orderly>>
    BY DEF ezGpio_OnReceiveEvent
  <1>3. hw_driver_list[n] \in Drivers /\ curr_inst[hw_driver_list[n]] \in Instances
    BY <1>1 DEF Matches, FieldsOK
  <1>4. FieldsOK'
    BY <1>1, <1>2, <1>3 DEF FieldsOK, UnlockDriver
  <1>5. curr_inst' = [curr_inst EXCEPT ![hw_driver_list[n]] = None]
    BY <1>1 DEF UnlockDriver
  <1>6. ASSUME orderly' PROVE OrderlyInv'
    <2>1. CallsAlone /\ LockedForOwn /\ RegisteredInList
      BY <1>2, <1>6 DEF OrderlyInv
    <2>2. CallsAlone'
      <3> SUFFICES ASSUME NEW i \in Instances, call[i] # NoCall
                   PROVE  /\ \A j \in Instances : call[j] # NoCall => j = i
                          /\ call[i].drv = driver[i]
                          /\ \A e \in Drivers : transfer[e] # i
                          /\ call[i].at = "lock" => curr_inst'[call[i].drv] = None
        BY <1>2 DEF CallsAlone
      <3> QED
        BY <1>5, <2>1, CallFields DEF CallsAlone, FieldsOK
    <2>3. LockedForOwn' /\ RegisteredInList'
      BY <1>2, <1>3, <1>5, <2>1 DEF LockedForOwn, RegisteredInList, FieldsOK
    <2> QED
      BY <2>2, <2>3 DEF OrderlyInv
  <1>7. GpioOnlySync' /\ TransferHoldsLock' /\ CallHoldsLock'
    BY <1>2 DEF GpioOnlySync, TransferHoldsLock, CallHoldsLock
  <1> QED
    BY <1>2, <1>4, <1>6, <1>7

(* Every function of the four drivers is one of the calls.                 *)
LEMMA DriverCalls ==
  ASSUME NEW i \in Instances, UartCall(i) \/ I2cCall(i) \/ SpiCall(i) \/ GpioCall(i)
  PROVE  \E p \in Peripherals, kind \in {"sync", "async"} :
           Call(p, kind, i) /\ (p = "gpio" => kind = "sync")
  <1>1. CASE UartCall(i)
    BY <1>1 DEF UartCall, ezUart_Initialize, ezUart_Deinitialize, ezUart_AsyncTransmit,
         ezUart_AsyncReceive, ezUart_SyncTransmit, ezUart_SyncReceive, ezUart_GetConfig,
         ezUart_UpdateConfig, Peripherals
  <1>2. CASE I2cCall(i)
    BY <1>2 DEF I2cCall, ezI2c_Initialize, ezI2c_TransmitSync, ezI2c_TransmitAsync,
         ezI2c_ReceiveSync, ezI2c_ReceiveAsync, ezI2c_Probe, Peripherals
  <1>3. CASE SpiCall(i)
    BY <1>3 DEF SpiCall, ezSpi_Initialize, ezSpi_TransferSync, ezSpi_TransferAsync,
         ezSpi_TransmitSync, ezSpi_TransmitAsync, ezSpi_ReceiveSync, ezSpi_ReceiveAsync,
         ezSpi_ChipSelect, Peripherals
  <1>4. CASE GpioCall(i)
    BY <1>4 DEF GpioCall, ezGpio_Initialize, ezGpio_ReadPin, ezGpio_WritePin,
         ezGpio_TogglePin, Peripherals
  <1> QED
    BY <1>1, <1>2, <1>3, <1>4

-----------------------------------------------------------------------------
LEMMA NextIInv == IInv /\ [Next]_vars => IInv'
  <1> SUFFICES ASSUME IInv, [Next]_vars PROVE IInv'
    OBVIOUS
  <1>1. CASE \E d \in Drivers :
               \/ SystemRegisterHwDriver(d) \/ SystemUnregisterHwDriver(d)
               \/ OnReceiveEvent(d) \/ SpiTransferEnds(d) \/ ezGpio_OnReceiveEvent(d)
    BY <1>1, DriverListStep, EventStep, SpiTransferEndsStep, PinInterruptStep
  <1>2. CASE \E i \in Instances : UnregisterInstance(i)
    BY <1>2, UnregistrationStep
  <1>3. CASE \E i \in Instances, d \in Drivers : RegisterInstance(i, d)
    BY <1>3, RegistrationStep
  <1>4. CASE \E i \in Instances : UartCall(i) \/ I2cCall(i) \/ SpiCall(i) \/ GpioCall(i)
    BY <1>4, DriverCalls, CallStep
  <1>5. CASE \E i \in Instances : LockDriver(i) \/ EndSync(i) \/ EndAsync(i)
    BY <1>5, LockStep, EndSyncStep, EndAsyncStep
  <1>6. CASE UNCHANGED vars
    BY <1>6 DEF vars, IInv, FieldsOK, OrderlyInv, CallsAlone, LockedForOwn, RegisteredInList,
         GpioOnlySync, TransferHoldsLock, CallHoldsLock, UserIsCurrent
  <1> QED
    BY <1>1, <1>2, <1>3, <1>4, <1>5, <1>6 DEF Next

(* The inductive invariant, with the rules it needs about registrations.   *)
THEOREM Invariance == Spec => []IInv
  <1> QED
    BY InitIInv, NextIInv, PTL DEF Spec

-----------------------------------------------------------------------------
(* The list of drivers is an invariant of its own.                         *)

ListOK ==
  /\ peripheral \in Peripherals
  /\ hw_driver_list \in Seq(Drivers) /\ IsInjective(hw_driver_list)

LEMMA InjectiveAppend ==
  ASSUME NEW s \in Seq(Drivers), NEW d \in Drivers, IsInjective(s), ~ Contains(s, d)
  PROVE  IsInjective(Append(s, d))
  <1>1. /\ DOMAIN s = 1 .. Len(s) /\ Len(s) \in Nat
        /\ DOMAIN Append(s, d) = 1 .. Len(s) + 1
        /\ \A k \in 1 .. Len(s) : Append(s, d)[k] = s[k]
        /\ Append(s, d)[Len(s) + 1] = d
    BY AppendProperties
  <1>2. \A k \in 1 .. Len(s) : s[k] # d
    BY DEF Contains
  <1>3. SUFFICES ASSUME NEW a \in 1 .. Len(s) + 1, NEW b \in 1 .. Len(s) + 1,
                        Append(s, d)[a] = Append(s, d)[b]
                 PROVE  a = b
    BY <1>1 DEF IsInjective
  <1>4. a \in 1 .. Len(s) \/ a = Len(s) + 1
    BY <1>1
  <1>5. b \in 1 .. Len(s) \/ b = Len(s) + 1
    BY <1>1
  <1> QED
    BY <1>1, <1>2, <1>3, <1>4, <1>5 DEF IsInjective

LEMMA InjectiveRemoveAt ==
  ASSUME NEW s \in Seq(Drivers), NEW n \in DOMAIN s, IsInjective(s)
  PROVE  IsInjective(RemoveAt(s, n))
  <1> DEFINE front == SubSeq(s, 1, n - 1)
             back == SubSeq(s, n + 1, Len(s))
             at(k) == IF k <= n - 1 THEN k ELSE k + 1
  <1>1. n \in 1 .. Len(s)
    OBVIOUS
  <1>0. Len(s) \in Nat /\ DOMAIN s = 1 .. Len(s)
    OBVIOUS
  <1>2. front \in Seq(Drivers) /\ Len(front) = n - 1 /\ \A m \in 1 .. n - 1 : front[m] = s[m]
    BY <1>1
  <1>3. /\ back \in Seq(Drivers) /\ Len(back) = Len(s) - n
        /\ \A m \in 1 .. Len(s) - n : back[m] = s[m + n]
    BY <1>1
  <1> HIDE DEF front, back
  <1>4. /\ front \o back \in Seq(Drivers)
        /\ Len(front \o back) = Len(s) - 1
        /\ \A m \in 1 .. Len(s) - 1 :
             (front \o back)[m] = IF m <= n - 1 THEN front[m] ELSE back[m - (n - 1)]
    <2> DEFINE both == front \o back
    <2>1. /\ both \in Seq(Drivers)
          /\ Len(both) = Len(front) + Len(back)
          /\ \A m \in 1 .. Len(front) + Len(back) :
               both[m] = IF m <= Len(front) THEN front[m] ELSE back[m - Len(front)]
      BY <1>2, <1>3, ConcatProperties
    <2> HIDE DEF both
    <2>2. Len(both) = Len(s) - 1
      BY <1>0, <1>1, <1>2, <1>3, <2>1
    <2>3. \A m \in 1 .. Len(s) - 1 :
            both[m] = IF m <= n - 1 THEN front[m] ELSE back[m - (n - 1)]
      BY <1>0, <1>1, <1>2, <1>3, <2>1
    <2> QED
      BY <2>1, <2>2, <2>3 DEF both
  <1>5. ASSUME NEW m \in 1 .. Len(s) - 1
        PROVE  (front \o back)[m] = s[at(m)] /\ at(m) \in 1 .. Len(s)
    <2>1. CASE m <= n - 1
      <3>1. m \in 1 .. n - 1 /\ m \in 1 .. Len(s)
        BY <1>0, <1>1, <2>1
      <3>2. (front \o back)[m] = front[m]
        BY <1>4, <2>1
      <3> QED
        BY <1>0, <1>2, <2>1, <3>1, <3>2
    <2>2. CASE ~ (m <= n - 1)
      <3>1. m - (n - 1) \in 1 .. Len(s) - n /\ (m - (n - 1)) + n = m + 1
        BY <1>0, <1>1, <2>2
      <3>2. (front \o back)[m] = back[m - (n - 1)]
        BY <1>4, <2>2
      <3>3. back[m - (n - 1)] = s[(m - (n - 1)) + n]
        BY <1>3, <3>1
      <3> QED
        BY <1>0, <1>1, <2>2, <3>1, <3>2, <3>3
    <2> QED
      BY <2>1, <2>2
  <1>6. ASSUME NEW a \in 1 .. Len(s) - 1, NEW b \in 1 .. Len(s) - 1, at(a) = at(b)
        PROVE  a = b
    BY <1>0, <1>1, <1>6
  <1> HIDE DEF at
  <1>7. IsInjective(front \o back)
    <2> SUFFICES ASSUME NEW a \in 1 .. Len(s) - 1, NEW b \in 1 .. Len(s) - 1,
                        (front \o back)[a] = (front \o back)[b]
                 PROVE  a = b
      <3> DEFINE both == front \o back
      <3>0. both \in Seq(Drivers) /\ Len(both) = Len(s) - 1
        BY <1>4
      <3> HIDE DEF both
      <3>1. DOMAIN both = 1 .. Len(s) - 1
        BY <3>0
      <3> QED
        BY <3>1 DEF IsInjective, both
    <2>1. s[at(a)] = s[at(b)] /\ at(a) \in DOMAIN s /\ at(b) \in DOMAIN s
      BY <1>0, <1>5
    <2>2. at(a) = at(b)
      BY <2>1 DEF IsInjective
    <2> QED
      BY <1>6, <2>2
  <1> QED
    BY <1>7 DEF RemoveAt, front, back

LEMMA InitListOK == Init => ListOK
  BY EmptySeq DEF Init, ListOK, IsInjective

LEMMA NextListOK == ListOK /\ [Next]_vars => ListOK'
  <1> SUFFICES ASSUME ListOK, [Next]_vars PROVE ListOK'
    OBVIOUS
  <1>1. ASSUME NEW d \in Drivers, SystemRegisterHwDriver(d) PROVE ListOK'
    BY <1>1, InjectiveAppend, AppendProperties DEF ListOK, SystemRegisterHwDriver
  <1>2. ASSUME NEW d \in Drivers, SystemUnregisterHwDriver(d) PROVE ListOK'
    <2>1. PICK n \in DOMAIN hw_driver_list : hw_driver_list' = RemoveAt(hw_driver_list, n)
      BY <1>2 DEF SystemUnregisterHwDriver
    <2>2. peripheral' = peripheral
      BY <1>2 DEF SystemUnregisterHwDriver
    <2> QED
      BY <2>1, <2>2, RemoveAtType, InjectiveRemoveAt DEF ListOK
  <1>3. CASE UNCHANGED <<peripheral, hw_driver_list>>
    BY <1>3 DEF ListOK
  <1>4. CASE \E i \in Instances : UartCall(i) \/ I2cCall(i) \/ SpiCall(i) \/ GpioCall(i)
    BY <1>3, <1>4, DriverCalls DEF Call
  <1>5. CASE \E d \in Drivers : OnReceiveEvent(d)
    BY <1>3, <1>5 DEF OnReceiveEvent
  <1>6. CASE \E i \in Instances : \/ UnregisterInstance(i) \/ LockDriver(i)
                                  \/ EndSync(i) \/ EndAsync(i)
                                  \/ \E d \in Drivers : RegisterInstance(i, d)
    BY <1>3, <1>6 DEF UnregisterInstance, LockDriver, EndSync, EndAsync, RegisterInstance
  <1>7. CASE \E d \in Drivers : SpiTransferEnds(d) \/ ezGpio_OnReceiveEvent(d)
    BY <1>3, <1>7 DEF SpiTransferEnds, ezGpio_OnReceiveEvent
  <1>8. CASE UNCHANGED vars
    BY <1>3, <1>8 DEF vars
  <1> QED
    BY <1>1, <1>2, <1>4, <1>5, <1>6, <1>7, <1>8 DEF Next

(* Every variable keeps its type and no driver is on the list twice: the   *)
(* search before ezDriver_SystemRegisterHwDriver links a driver is enough. *)
THEOREM TypeCorrect == Spec => []TypeOK
  <1>1. IInv /\ ListOK => TypeOK
    BY DEF IInv, FieldsOK, ListOK, TypeOK
  <1>2. Spec => []ListOK
    BY InitListOK, NextListOK, PTL DEF Spec
  <1> QED
    BY <1>1, <1>2, Invariance, PTL

(* A driver in a transfer is locked for the instance that started it.      *)
THEOREM TransferAlwaysHoldsLock == Spec => []TransferHoldsLock
  <1>1. IInv => TransferHoldsLock
    BY DEF IInv
  <1> QED
    BY <1>1, Invariance, PTL

(* A call of UART, I2C or SPI that is past ezDriver_LockDriver has the     *)
(* lock until it returns, whatever driver an interrupt is of.  GPIO is not *)
(* said to: its pin interrupt unlocks the driver of a call.                *)
THEOREM CallAlwaysHoldsLock == Spec => []CallHoldsLock
  <1>1. IInv => CallHoldsLock
    BY DEF IInv
  <1> QED
    BY <1>1, Invariance, PTL

(* ezUart_OnReceiveEvent calls back the instance that started the transfer.*)
THEOREM EventReachesStarter == Spec => CompletionReachesStarter
  <1> DEFINE A == orderly' /\ peripheral # "spi" => \A d \in Drivers :
                    transfer[d] # None /\ transfer'[d] # transfer[d] => notified' = transfer[d]
  <1>1. IInv /\ [Next]_vars => [A]_vars
    <2> SUFFICES ASSUME IInv, Next, orderly', peripheral # "spi", NEW d \in Drivers,
                        transfer[d] # None, transfer'[d] # transfer[d]
                 PROVE  notified' = transfer[d]
      OBVIOUS
    <2>1. CASE \E e \in Drivers : OnReceiveEvent(e)
      <3>1. PICK e \in Drivers : OnReceiveEvent(e)
        BY <2>1
      <3>2. notified' = transfer[e] /\ transfer' = [transfer EXCEPT ![e] = None]
        BY <3>1, OrderlyEvent
      <3> QED
        BY <3>2 DEF IInv, FieldsOK
    <2>2. CASE \E i \in Instances : EndAsync(i)
      <3>1. PICK i \in Instances : EndAsync(i)
        BY <2>2
      <3> QED
        BY <3>1 DEF EndAsync, IInv, FieldsOK
    <2>3. CASE \E i \in Instances : UartCall(i) \/ I2cCall(i) \/ SpiCall(i) \/ GpioCall(i)
      BY <2>3, DriverCalls DEF Call
    <2> QED
      BY <2>1, <2>2, <2>3
      DEF Next, SystemRegisterHwDriver, SystemUnregisterHwDriver, RegisterInstance,
          UnregisterInstance, LockDriver, EndSync, SpiTransferEnds, ezGpio_OnReceiveEvent
  <1> QED
    BY <1>1, Invariance, PTL DEF Spec, CompletionReachesStarter
=============================================================================
