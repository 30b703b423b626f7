----------------------------- MODULE HalDriver -----------------------------
(***************************************************************************)
(* The HAL drivers for UART, I2C, SPI and GPIO over their common part      *)
(* hal/ez_driver_def.h: instances share a hardware driver, a lock says     *)
(* which instance uses it.  A synchronous call locks, works and unlocks.   *)
(* An asynchronous one of UART and I2C leaves the driver locked until the  *)
(* interrupt that ends the transfer unlocks it; one of SPI unlocks as soon *)
(* as the transfer has begun.  Interrupts come between any two steps.  The *)
(* four files have separate lists: a behaviour is about one of them.       *)
(***************************************************************************)
EXTENDS Naturals, Sequences, SequencesExt

CONSTANTS
  Instances,    \* the driver instances of the application
  Drivers,      \* the hardware drivers
  None          \* the NULL pointer

Peripherals == {"uart", "i2c", "spi", "gpio"}

ASSUME NoneAssumption == None \notin Instances \cup Drivers

VARIABLES
  peripheral,       \* the kind of drivers this behaviour is about
  hw_driver_list,   \* the registered drivers in list order
  driver,           \* driver[i]: the driver instance i is registered to
  curr_inst,        \* curr_inst[d]: the instance driver d is locked for
  call,             \* call[i]: the call instance i is in the middle of
  transfer,         \* hardware: transfer[d] is the instance d transfers for
  notified,         \* history: the instance whose callback ran last
  orderly           \* history: the application has been orderly, see below

vars == <<peripheral, hw_driver_list, driver, curr_inst, call, transfer, notified, orderly>>

NoCall == [at |-> "out"]
Calls == {NoCall} \cup [at : {"lock", "use"}, kind : {"sync", "async"}, drv : Drivers]

Init ==
  /\ peripheral \in Peripherals
  /\ hw_driver_list = << >>
  /\ driver = [i \in Instances |-> None]
  /\ curr_inst = [d \in Drivers |-> None]
  /\ call = [i \in Instances |-> NoCall]
  /\ transfer = [d \in Drivers |-> None]
  /\ notified = None
  /\ orderly = TRUE

-----------------------------------------------------------------------------
(* Faulty variants of the definitions below, one plausible slip each.      *)

UnlockedAfterStart(i, d) == curr_inst' = [curr_inst EXCEPT ![d] = None]

MatchesAnyLocked(x, d) == curr_inst[x] # None

LockIgnoresOwner(i, d) == TRUE

UnlockForgotten(x) == UNCHANGED curr_inst

LockStoresDriver(i, d) == curr_inst' = [curr_inst EXCEPT ![d] = d]

-----------------------------------------------------------------------------
(* The code protects only an orderly application: one thread makes all     *)
(* calls; an instance is left alone from the start of a transfer to its    *)
(* completion event, and its callback starts nothing; no registration that *)
(* is in use is changed.  Nothing enforces these rules, so every step may  *)
(* break them, and orderly records whether one did.                        *)

Demand(rule) == orderly' = (orderly /\ rule)

InUse(i) == \E d \in Drivers : curr_inst[d] = i \/ transfer[d] = i

-----------------------------------------------------------------------------
SystemRegisterHwDriver(d) ==
  /\ ~ Contains(hw_driver_list, d)
  /\ hw_driver_list' = Append(hw_driver_list, d)
  /\ UNCHANGED <<peripheral, driver, curr_inst, call, transfer, notified, orderly>>

SystemUnregisterHwDriver(d) ==
  /\ \E n \in DOMAIN hw_driver_list :
       /\ hw_driver_list[n] = d
       /\ hw_driver_list' = RemoveAt(hw_driver_list, n)
  /\ Demand(curr_inst[d] = None /\ \A i \in Instances : driver[i] # d)
  /\ UNCHANGED <<peripheral, driver, curr_inst, call, transfer, notified>>

RegisterInstance(i, d) ==
  /\ Demand(call[i] = NoCall /\ ~ InUse(i))
  /\ Contains(hw_driver_list, d)
  /\ driver' = [driver EXCEPT ![i] = d]
  /\ UNCHANGED <<peripheral, hw_driver_list, curr_inst, call, transfer, notified>>

UnregisterInstance(i) ==
  /\ Demand(call[i] = NoCall /\ ~ InUse(i))
  /\ driver' = [driver EXCEPT ![i] = None]
  /\ UNCHANGED <<peripheral, hw_driver_list, curr_inst, call, transfer, notified>>

(* LockDriver reads curr_inst and then writes it.  It succeeds at once for *)
(* the instance that has the lock already.                                 *)
LockSucceeds(i, d) == curr_inst[d] \in {i, None}

(* What every call of an instance begins with; a busy driver refuses it.   *)
Call(p, kind, i) ==
  /\ peripheral = p
  /\ call[i] = NoCall
  /\ Demand(/\ \A j \in Instances : call[j] = NoCall
            /\ \A d \in Drivers : transfer[d] # i)
  /\ driver[i] # None
  /\ LockSucceeds(i, driver[i])
  /\ call' = [call EXCEPT ![i] =
                [at |-> IF curr_inst[driver[i]] = None THEN "lock" ELSE "use",
                 kind |-> kind, drv |-> driver[i]]]
  /\ UNCHANGED <<peripheral, hw_driver_list, driver, curr_inst, transfer, notified>>

Lock(i, d) == curr_inst' = [curr_inst EXCEPT ![d] = i]

LockDriver(i) ==
  /\ call[i].at = "lock"
  /\ Lock(i, call[i].drv)
  /\ call' = [call EXCEPT ![i].at = "use"]
  /\ UNCHANGED <<peripheral, hw_driver_list, driver, transfer, notified, orderly>>

UnlockDriver(d) == curr_inst' = [curr_inst EXCEPT ![d] = None]

EndSync(i) ==
  /\ call[i].at = "use" /\ call[i].kind = "sync"
  /\ UnlockDriver(call[i].drv)
  /\ call' = [call EXCEPT ![i] = NoCall]
  /\ UNCHANGED <<peripheral, hw_driver_list, driver, transfer, notified, orderly>>

(* UART and I2C leave the driver locked, whether the hardware accepts the  *)
(* transfer or not; SPI unlocks it in both cases.                          *)
LockAfterStart(i, d) ==
  IF peripheral = "spi" THEN UnlockDriver(d) ELSE UNCHANGED curr_inst

EndAsync(i) ==
  /\ call[i].at = "use" /\ call[i].kind = "async"
  /\ LockAfterStart(i, call[i].drv)
  /\ \/ /\ transfer[call[i].drv] = None
        /\ transfer' = [transfer EXCEPT ![call[i].drv] = i]
     \/ UNCHANGED transfer
  /\ call' = [call EXCEPT ![i] = NoCall]
  /\ UNCHANGED <<peripheral, hw_driver_list, driver, notified, orderly>>

(* The interrupt of driver d that ends its transfer: the first driver in   *)
(* the list that is locked for an instance registered to d.                *)
Matches(x, d) == curr_inst[x] # None /\ driver[curr_inst[x]] = d

AfterEvent(x) == UnlockDriver(x)

(* The callback may start the next transfer, which finds the lock taken by *)
(* its own instance; the driver is unlocked after the callback all the same.*)
OnReceiveEvent(d) ==
  /\ peripheral \in {"uart", "i2c"}
  /\ transfer[d] # None
  /\ \/ /\ \A n \in DOMAIN hw_driver_list : ~ Matches(hw_driver_list[n], d)
        /\ transfer' = [transfer EXCEPT ![d] = None]
        /\ UNCHANGED <<curr_inst, notified, orderly>>
     \/ \E n \in DOMAIN hw_driver_list :
          LET x == hw_driver_list[n]
              i == curr_inst[x]
          IN  /\ Matches(x, d)
              /\ \A m \in 1 .. n - 1 : ~ Matches(hw_driver_list[m], d)
              /\ notified' = i
              /\ \/ /\ transfer' = [transfer EXCEPT ![d] = None]
                    /\ AfterEvent(x)
                    /\ UNCHANGED orderly
                 \/ /\ LockSucceeds(i, d)
                    /\ \E started \in {i, None} :
                         transfer' = [transfer EXCEPT ![d] = started]
                    /\ curr_inst' = [curr_inst EXCEPT ![d] = i, ![x] = None]
                    /\ Demand(FALSE)
  /\ UNCHANGED <<peripheral, hw_driver_list, driver, call>>

(* No event handler is installed for SPI: a transfer ends unnoticed.       *)
SpiTransferEnds(d) ==
  /\ peripheral = "spi"
  /\ transfer[d] # None
  /\ transfer' = [transfer EXCEPT ![d] = None]
  /\ UNCHANGED <<peripheral, hw_driver_list, driver, curr_inst, call, notified, orderly>>

(* A pin interrupt finds an instance only in the middle of one of its own  *)
(* calls, and unlocks the driver under it; any other interrupt is lost.    *)
ezGpio_OnReceiveEvent(d) ==
  /\ peripheral = "gpio"
  /\ \E n \in DOMAIN hw_driver_list :
       /\ Matches(hw_driver_list[n], d)
       /\ \A m \in 1 .. n - 1 : ~ Matches(hw_driver_list[m], d)
       /\ notified' = curr_inst[hw_driver_list[n]]
       /\ UnlockDriver(hw_driver_list[n])
  /\ UNCHANGED <<peripheral, hw_driver_list, driver, call, transfer, orderly>>

-----------------------------------------------------------------------------
(* The calls of the four drivers.                                          *)

ezUart_Initialize(i) == Call("uart", "sync", i)
ezUart_Deinitialize(i) == Call("uart", "sync", i)
ezUart_AsyncTransmit(i) == Call("uart", "async", i)
ezUart_AsyncReceive(i) == Call("uart", "async", i)
ezUart_SyncTransmit(i) == Call("uart", "sync", i)
ezUart_SyncReceive(i) == Call("uart", "sync", i)
ezUart_GetConfig(i) == Call("uart", "sync", i)
ezUart_UpdateConfig(i) == Call("uart", "sync", i)

ezI2c_Initialize(i) == Call("i2c", "sync", i)
ezI2c_TransmitSync(i) == Call("i2c", "sync", i)
ezI2c_TransmitAsync(i) == Call("i2c", "async", i)
ezI2c_ReceiveSync(i) == Call("i2c", "sync", i)
ezI2c_ReceiveAsync(i) == Call("i2c", "async", i)
ezI2c_Probe(i) == Call("i2c", "sync", i)

ezSpi_Initialize(i) == Call("spi", "sync", i)
ezSpi_TransferSync(i) == Call("spi", "sync", i)
ezSpi_TransferAsync(i) == Call("spi", "async", i)
ezSpi_TransmitSync(i) == Call("spi", "sync", i)
ezSpi_TransmitAsync(i) == Call("spi", "async", i)
ezSpi_ReceiveSync(i) == Call("spi", "sync", i)
ezSpi_ReceiveAsync(i) == Call("spi", "async", i)
ezSpi_ChipSelect(i) == Call("spi", "sync", i)

ezGpio_Initialize(i) == Call("gpio", "sync", i)
ezGpio_ReadPin(i) == Call("gpio", "sync", i)
ezGpio_WritePin(i) == Call("gpio", "sync", i)
ezGpio_TogglePin(i) == Call("gpio", "sync", i)

UartCall(i) ==
  \/ ezUart_Initialize(i) \/ ezUart_Deinitialize(i) \/ ezUart_AsyncTransmit(i)
  \/ ezUart_AsyncReceive(i) \/ ezUart_SyncTransmit(i) \/ ezUart_SyncReceive(i)
  \/ ezUart_GetConfig(i) \/ ezUart_UpdateConfig(i)

I2cCall(i) ==
  \/ ezI2c_Initialize(i) \/ ezI2c_TransmitSync(i) \/ ezI2c_TransmitAsync(i)
  \/ ezI2c_ReceiveSync(i) \/ ezI2c_ReceiveAsync(i) \/ ezI2c_Probe(i)

SpiCall(i) ==
  \/ ezSpi_Initialize(i) \/ ezSpi_TransferSync(i) \/ ezSpi_TransferAsync(i)
  \/ ezSpi_TransmitSync(i) \/ ezSpi_TransmitAsync(i) \/ ezSpi_ReceiveSync(i)
  \/ ezSpi_ReceiveAsync(i) \/ ezSpi_ChipSelect(i)

GpioCall(i) ==
  ezGpio_Initialize(i) \/ ezGpio_ReadPin(i) \/ ezGpio_WritePin(i) \/ ezGpio_TogglePin(i)

Next ==
  \/ \E d \in Drivers :
       \/ SystemRegisterHwDriver(d) \/ SystemUnregisterHwDriver(d)
       \/ OnReceiveEvent(d) \/ SpiTransferEnds(d) \/ ezGpio_OnReceiveEvent(d)
  \/ \E i \in Instances :
       \/ UnregisterInstance(i) \/ LockDriver(i) \/ EndSync(i) \/ EndAsync(i)
       \/ \E d \in Drivers : RegisterInstance(i, d)
       \/ UartCall(i) \/ I2cCall(i) \/ SpiCall(i) \/ GpioCall(i)

Spec == Init /\ [][Next]_vars

(* The hardware ends every transfer it started.                            *)
FairSpec == Spec /\ \A d \in Drivers : WF_vars(OnReceiveEvent(d))

-----------------------------------------------------------------------------
(* The variables have their types, the list names no driver twice.         *)
TypeOK ==
  /\ peripheral \in Peripherals
  /\ hw_driver_list \in Seq(Drivers) /\ IsInjective(hw_driver_list)
  /\ driver \in [Instances -> Drivers \cup {None}]
  /\ curr_inst \in [Drivers -> Instances \cup {None}]
  /\ call \in [Instances -> Calls]
  /\ transfer \in [Drivers -> Instances \cup {None}]
  /\ notified \in Instances \cup {None}
  /\ orderly \in BOOLEAN

(* A UART or I2C driver that transfers for an instance is locked for it,   *)
(* so every other instance finds it busy until the completion event.       *)
TransferHoldsLock ==
  orderly /\ peripheral # "spi" =>
    \A d \in Drivers : transfer[d] # None => curr_inst[d] = transfer[d]

(* The comment of curr_inst calls it the current instance using the driver, *)
(* NULL meaning that the driver is available: while a call uses a driver,  *)
(* curr_inst is the instance that made the call.                           *)
UserIsCurrent ==
  orderly => \A i \in Instances : call[i].at = "use" => curr_inst[call[i].drv] = i

(* That holds of UART, I2C and SPI: no completion interrupt, whichever     *)
(* driver it is of, and no other instance takes the lock from a call that  *)
(* got past it.  The pin interrupt of GPIO does.                           *)
CallHoldsLock == peripheral # "gpio" => UserIsCurrent

(* A UART or I2C transfer that ends calls back the instance that began it. *)
CompletionReachesStarter ==
  [][orderly' /\ peripheral # "spi" => \A d \in Drivers :
       transfer[d] # None /\ transfer'[d] # transfer[d] => notified' = transfer[d]]_vars

(* A transfer of UART or I2C unlocks its driver again some day.            *)
TransferReleasesLock ==
  [](orderly /\ peripheral # "spi") => \A d \in Drivers : transfer[d] # None ~> curr_inst[d] = None

(* The comment of ezDriver_LockDriver says that it prevents other          *)
(* instances from using the driver: none is let in during a transfer.      *)
OthersKeptOut ==
  \A d \in Drivers :
    transfer[d] # None /\ curr_inst[d] # None => curr_inst[d] = transfer[d]
=============================================================================
