------------------------------- MODULE Serial -------------------------------
(***************************************************************************)
(* A serial device of components/drivers/serial/serial.c, as src/device.c  *)
(* opens and closes it: the receive FIFO that the interrupt fills and      *)
(* threads empty, and the queue of buffers that DMA transmits.             *)
(*                                                                         *)
(* open and close have no lock: each load and each store of the shared     *)
(* state is a step, between which the interrupt and other threads come.    *)
(* The byte of a read and the byte of an interrupt are sections of their   *)
(* own.  An assertion of the code that fails stops the system there.       *)
(***************************************************************************)
EXTENDS Integers, Sequences, SequencesExt, FiniteSets

CONSTANTS
    SlUser,       \* the threads that use the device
    REF_MAX,      \* the largest ref_count, 255
    SL_BUFSZ,     \* serial->config.bufsz
    SL_BYTES,     \* bound: bytes count modulo this, to be told apart
    TX_QUEUE,     \* the size of the data queue of tx_dma
    SL_BUFFERS,   \* bound: written buffers count modulo this
    NoBuffer      \* what DMA transmits when it does not

ASSUME SerialConstants ==
    /\ {REF_MAX, SL_BYTES, TX_QUEUE, SL_BUFFERS} \subseteq Nat \ {0}
    /\ SL_BUFSZ \in Nat \ {0, 1}
    /\ NoBuffer \notin 0 .. SL_BUFFERS - 1

VARIABLES
    serial,   \* ref_count; the flag INT_RX of open_flag; serial_rx is not RT_NULL;
              \* the FIFO is allocated; the interrupt is on
    rxFifo,   \* the FIFO: put_index, get_index, is_full, buffer
    received, \* history: the bytes received and not read or overwritten; the next
    slUser,   \* where each thread is in open or close, the mode it opens in, its ref_count
    opening,  \* history: two opens or closes at once since the device was at rest;
              \* the mode of the latest open
    txDma,    \* tx_dma: data_queue, activated; what DMA transmits; the next buffer
    writer,   \* what each thread pushed and where it is in _serial_dma_tx
    astray    \* history: a thread transmitted what is not the head of the queue, and
              \* the device was not idle since

serialVars == <<serial, rxFifo, received, slUser, opening, txDma, writer, astray>>

EmptyFifo == [put_index |-> 0, get_index |-> 0, is_full |-> FALSE,
              buffer |-> [i \in 0 .. SL_BUFSZ - 1 |-> 0]]

SerialInit ==
    /\ serial = [ref_count |-> 0, int_rx |-> FALSE, serial_rx |-> FALSE,
                 allocated |-> FALSE, irq |-> FALSE]
    /\ rxFifo = EmptyFifo
    /\ received = [unread |-> << >>, next |-> 0]
    /\ slUser = [u \in SlUser |-> [at |-> "closed", mode |-> "plain", count |-> 0]]
    /\ opening = [overlapped |-> FALSE, latest |-> "plain"]
    /\ txDma = [data_queue |-> << >>, activated |-> FALSE, sends |-> NoBuffer, next |-> 0]
    /\ writer = [u \in SlUser |-> [at |-> "run", buffer |-> NoBuffer]]
    /\ astray = FALSE

SlAt(u, step) == slUser[u].at = step
SlGoto(u, step) == slUser' = [slUser EXCEPT ![u].at = step]

dmaVars == <<txDma, writer, astray>>
rxVars == <<rxFifo, received>>

-----------------------------------------------------------------------------
(* rt_device_open with rt_serial_open *)

Between(u) == slUser[u].at \notin {"closed", "open"}

\* The FIFO, the pointer to it and the interrupt are there together or not at
\* all, and the flag says that they are.
Together ==
    /\ serial.serial_rx <=> serial.allocated
    /\ serial.allocated <=> serial.irq
    /\ serial.int_rx => serial.serial_rx

AtRest == (\A u \in SlUser : SlAt(u, "closed")) /\ serial.ref_count = 0 /\ Together

\* History, for each step of an open or a close.
Opening(latest) ==
    LET met == \E u, v \in SlUser : u # v /\ Between(u)' /\ Between(v)'
    IN  opening' = [overlapped |-> (opening.overlapped \/ met) /\ ~AtRest', latest |-> latest]

OpenStep == Opening(opening.latest) /\ UNCHANGED dmaVars

\* The open flags are those of the latest open.
OpenFlags(u) ==
    /\ SlAt(u, "closed")
    /\ \E mode \in {"int", "plain"} :
         /\ serial' = [serial EXCEPT !.int_rx = (mode = "int")]
         /\ slUser' = [slUser EXCEPT ![u] = [at |-> "fifo", mode |-> mode, count |-> 0]]
         /\ Opening(mode)
    /\ UNCHANGED <<rxVars, dmaVars>>

\* Mutant: the open count decides, not the FIFO that is there.
OpenFifoAgain(u) ==
    /\ SlAt(u, "fifo")
    /\ IF slUser[u].mode = "int" /\ serial.ref_count = 0
       THEN /\ serial' = [serial EXCEPT !.serial_rx = TRUE, !.allocated = TRUE, !.int_rx = TRUE]
            /\ rxFifo' = EmptyFifo
            /\ received' = [received EXCEPT !.unread = << >>]
            /\ SlGoto(u, "setint")
       ELSE SlGoto(u, "count") /\ UNCHANGED <<serial, rxVars>>
    /\ OpenStep

\* The FIFO is allocated by the first open that needs it.
OpenFifo(u) ==
    /\ SlAt(u, "fifo")
    /\ IF slUser[u].mode = "int" /\ ~serial.serial_rx
       THEN /\ serial' = [serial EXCEPT !.serial_rx = TRUE, !.allocated = TRUE, !.int_rx = TRUE]
            /\ rxFifo' = EmptyFifo
            /\ received' = [received EXCEPT !.unread = << >>]
            /\ SlGoto(u, "setint")
       ELSE /\ serial' = [serial EXCEPT !.int_rx = @ \/ slUser[u].mode = "int"]
            /\ SlGoto(u, "count")
            /\ UNCHANGED rxVars
    /\ OpenStep

OpenSetInt(u) ==
    /\ SlAt(u, "setint")
    /\ serial' = [serial EXCEPT !.irq = TRUE]
    /\ SlGoto(u, "count")
    /\ UNCHANGED rxVars /\ OpenStep

\* ref_count++: the value is loaded and stored.  One that wraps to 0 fails an
\* assertion.
OpenCount(u) ==
    /\ SlAt(u, "count") /\ serial.ref_count < REF_MAX
    /\ slUser' = [slUser EXCEPT ![u].at = "counted", ![u].count = serial.ref_count + 1]
    /\ UNCHANGED <<serial, rxVars>> /\ OpenStep

OpenCounted(u) ==
    /\ SlAt(u, "counted")
    /\ serial' = [serial EXCEPT !.ref_count = slUser[u].count]
    /\ SlGoto(u, "open")
    /\ UNCHANGED rxVars /\ OpenStep

-----------------------------------------------------------------------------
(* rt_device_close with rt_serial_close *)

\* A close that finds no reference left does nothing.
CloseCount(u) ==
    /\ SlAt(u, "open")
    /\ slUser' = [slUser EXCEPT ![u].at = IF serial.ref_count = 0 THEN "closed" ELSE "uncount",
                                ![u].count = serial.ref_count - 1]
    /\ UNCHANGED <<serial, rxVars>> /\ OpenStep

CloseCounted(u) ==
    /\ SlAt(u, "uncount")
    /\ serial' = [serial EXCEPT !.ref_count = slUser[u].count]
    /\ SlGoto(u, "last")
    /\ UNCHANGED rxVars /\ OpenStep

\* The test of the count, of the value that was stored or read again.
CloseLast(u) ==
    /\ SlAt(u, "last")
    /\ \E count \in {slUser[u].count, serial.ref_count} :
         SlGoto(u, IF count = 0 THEN "free" ELSE "closed")
    /\ UNCHANGED <<serial, rxVars>> /\ OpenStep

\* "this device has more reference count": nothing is closed but the flags.
CloseFree(u) ==
    /\ SlAt(u, "free")
    /\ IF serial.ref_count <= 1 /\ serial.int_rx
       THEN serial.serial_rx /\ serial' = [serial EXCEPT !.allocated = FALSE] /\ SlGoto(u, "forget")
       ELSE SlGoto(u, "flags") /\ UNCHANGED serial
    /\ UNCHANGED rxVars /\ OpenStep

CloseForget(u) ==
    /\ SlAt(u, "forget")
    /\ serial' = [serial EXCEPT !.serial_rx = FALSE, !.int_rx = FALSE]
    /\ SlGoto(u, "clrint")
    /\ UNCHANGED rxVars /\ OpenStep

CloseClrInt(u) ==
    /\ SlAt(u, "clrint")
    /\ serial' = [serial EXCEPT !.irq = FALSE]
    /\ SlGoto(u, "flags")
    /\ UNCHANGED rxVars /\ OpenStep

\* RT_DEVICE_OFLAG_CLOSE
CloseFlags(u) ==
    /\ SlAt(u, "flags")
    /\ serial' = [serial EXCEPT !.int_rx = FALSE]
    /\ SlGoto(u, "closed")
    /\ UNCHANGED rxVars /\ OpenStep

-----------------------------------------------------------------------------
(* The receive FIFO *)

Following(index) == IF index + 1 >= SL_BUFSZ THEN 0 ELSE index + 1

\* A byte in the FIFO; the oldest is discarded when it reaches the read index.
Put(f, byte) ==
    LET put == Following(f.put_index)
    IN  [put_index |-> put,
         get_index |-> IF put = f.get_index THEN Following(f.get_index) ELSE f.get_index,
         is_full |-> f.is_full \/ put = f.get_index,
         buffer |-> [f.buffer EXCEPT ![f.put_index] = byte]]

\* One turn of the loop of RT_SERIAL_EVENT_RX_IND, which asserts that there is a
\* FIFO; one that is freed is still written to.
DeviceRxInd ==
    /\ serial.irq /\ serial.serial_rx
    /\ rxFifo' = Put(rxFifo, received.next)
    /\ received' =
         LET unread == Append(received.unread, received.next)
         IN  [unread |-> IF Len(unread) >= SL_BUFSZ THEN Tail(unread) ELSE unread,
              next |-> (received.next + 1) % SL_BYTES]
    /\ UNCHANGED <<serial, slUser, opening, dmaVars>>

\* One turn of the loop of _serial_int_rx that finds a byte, by whoever has the
\* device open: the flag decides, not the mode of the reader.
IntRx(u) ==
    /\ SlAt(u, "open") /\ serial.ref_count # 0
    /\ serial.int_rx /\ serial.serial_rx
    /\ rxFifo.get_index # rxFifo.put_index \/ rxFifo.is_full
    /\ rxFifo' = [rxFifo EXCEPT !.get_index = Following(@), !.is_full = FALSE]
    /\ received' = [received EXCEPT !.unread = Tail(@)]
    /\ UNCHANGED <<serial, slUser, opening, dmaVars>>

-----------------------------------------------------------------------------
(* Transmission by DMA *)

WriterAt(u, step) == writer[u].at = step
deviceVars == <<serial, rxFifo, received, slUser, opening>>

\* Nothing is queued, transmitted or about to be.
TxIdle ==
    /\ txDma.data_queue = << >> /\ ~txDma.activated /\ txDma.sends = NoBuffer
    /\ \A u \in SlUser : WriterAt(u, "run")

\* rt_data_queue_push: the thread waits while the queue is full.
DmaTxPush(u) ==
    /\ WriterAt(u, "run")
    /\ Len(txDma.data_queue) < TX_QUEUE
    /\ txDma' = [txDma EXCEPT !.data_queue = Append(@, txDma.next), !.next = (@ + 1) % SL_BUFFERS]
    /\ writer' = [writer EXCEPT ![u] = [at |-> "pushed", buffer |-> txDma.next]]
    /\ UNCHANGED <<deviceVars, astray>>

IsHead(buffer) == txDma.data_queue # << >> /\ buffer = Head(txDma.data_queue)

DmaTxActivate(u) ==
    /\ WriterAt(u, "pushed")
    /\ txDma' = [txDma EXCEPT !.activated = TRUE]
    /\ writer' = [writer EXCEPT ![u].at = IF txDma.activated THEN "run" ELSE "transmit"]
    /\ astray' = (astray \/ ~(txDma.activated \/ IsHead(writer[u].buffer)))
    /\ UNCHANGED deviceVars

\* The thread transmits what it pushed itself.
DmaTxTransmit(u) ==
    /\ WriterAt(u, "transmit")
    /\ txDma' = [txDma EXCEPT !.sends = writer[u].buffer]
    /\ writer' = [writer EXCEPT ![u].at = "run"]
    /\ UNCHANGED <<deviceVars, astray>>

\* RT_SERIAL_EVENT_TX_DMADONE: the head of the queue is done, the next is started.
DeviceDmaDone ==
    /\ txDma.sends # NoBuffer
    /\ LET queue == IF txDma.data_queue = << >> THEN << >> ELSE Tail(txDma.data_queue)
       IN  txDma' = [txDma EXCEPT !.data_queue = queue,
                            !.activated = queue # << >>,
                            !.sends = IF queue # << >> THEN Head(queue) ELSE NoBuffer]
    /\ UNCHANGED <<deviceVars, writer>>
    /\ astray' = (astray /\ ~TxIdle')

\* Reception and transmission share no state.
ReceptionNext ==
    \/ \E u \in SlUser :
         \/ OpenFlags(u) \/ OpenFifo(u) \/ OpenSetInt(u) \/ OpenCount(u) \/ OpenCounted(u)
         \/ CloseCount(u) \/ CloseCounted(u) \/ CloseLast(u)
         \/ CloseFree(u) \/ CloseForget(u) \/ CloseClrInt(u) \/ CloseFlags(u)
         \/ IntRx(u)
    \/ DeviceRxInd

TransmissionNext ==
    \/ \E u \in SlUser : DmaTxPush(u) \/ DmaTxActivate(u) \/ DmaTxTransmit(u)
    \/ DeviceDmaDone

SerialNext == ReceptionNext \/ TransmissionNext

SerialSpec == SerialInit /\ [][SerialNext]_serialVars

-----------------------------------------------------------------------------
(* Properties *)

FifoLen ==
    IF rxFifo.put_index = rxFifo.get_index /\ rxFifo.is_full THEN SL_BUFSZ
    ELSE (rxFifo.put_index - rxFifo.get_index) % SL_BUFSZ

\* The FIFO holds the bytes that were received and not read, in their order,
\* but for the oldest that had no room.
FifoHolds ==
    serial.allocated =>
        /\ FifoLen = Len(received.unread)
        /\ \A i \in 1 .. FifoLen :
             rxFifo.buffer[(rxFifo.get_index + i - 1) % SL_BUFSZ] = received.unread[i]

\* Unless two opens or closes met, whoever has the device open for reading by
\* interrupt has its FIFO and the interrupt; the flag, which rt_serial_read looks
\* at, is that of the latest open.
OpenReceives ==
    \A u \in SlUser : SlAt(u, "open") /\ slUser[u].mode = "int" /\ ~opening.overlapped =>
        /\ serial.serial_rx /\ serial.allocated /\ serial.irq
        /\ opening.latest = "int" => serial.int_rx

\* The interrupt never finds the FIFO gone: RT_ASSERT(rx_fifo != RT_NULL).
InterruptHasFifo ==
    serial.irq => serial.serial_rx /\ serial.allocated

\* But for opens or closes that met, it does so only in the close that is about
\* to switch the interrupt off.
FifoGoesInClose ==
    opening.overlapped \/ InterruptHasFifo
        \/ \E u \in SlUser : slUser[u].at \in {"forget", "clrint"}

\* Each open is counted, unless two opens or closes met.
RefsCounted ==
    \/ opening.overlapped
    \/ serial.ref_count = Cardinality({u \in SlUser : slUser[u].at \in {"open", "uncount"}})

\* DMA sends the head of the queue.
SendsHead ==
    txDma.sends # NoBuffer => IsHead(txDma.sends)

\* DMA transmits what was written in its order, each buffer once, until a thread
\* finds the device not activated and its buffer not the head: it sends the head
\* of the queue, and with nobody about to start it, it does not stop before the
\* queue is empty.
TransmitsInOrder ==
    \/ astray
    \/ /\ SendsHead
       /\ txDma.data_queue # << >> /\ (\A u \in SlUser : WriterAt(u, "run")) => txDma.sends # NoBuffer

\* No byte received and no buffer written is lost, doubled or reordered, and
\* opening and closing leave the FIFO to those who use it, but for the opens,
\* closes and writes that the histories name.
SerialInvariant ==
    /\ FifoHolds
    /\ OpenReceives
    /\ FifoGoesInClose
    /\ RefsCounted
    /\ TransmitsInOrder

=============================================================================
