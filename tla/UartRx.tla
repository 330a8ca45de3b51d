-------------------------------- MODULE UartRx --------------------------------
(***************************************************************************)
(* How bytes of the motor link reach the firmware (user/serial.c): the     *)
(* receive FIFO of UART0, its interrupt handler, which masks the receive   *)
(* interrupts and posts a message to a task, and the task, which empties   *)
(* the FIFO and unmasks them.                                              *)
(*                                                                         *)
(* The handler cannot be preempted by the task and is one action. The task *)
(* is preempted by it between any two of its accesses to the UART, and     *)
(* bytes arrive at any time. Setting the two enable bits is a read and a   *)
(* write in the code; a handler run in between clears the same two bits    *)
(* and the write sets them all the same, so it is one action here.         *)
(***************************************************************************)
EXTENDS Integers

CONSTANTS
  FifoSize,      \* bytes in the receive FIFO: 128 in the chip
  FullThreshold, \* bytes that raise RXFIFO_FULL: 100
  QueueLen,      \* uart_recvTaskQueueLen: 10
  LevelTriggered,\* a cleared interrupt is raised again while its cause lasts
  MaxBytes       \* bound of the model: bytes that arrive

ASSUME UartAssumption ==
  /\ FifoSize \in Nat \ {0}
  /\ FullThreshold \in 1 .. FifoSize
  /\ QueueLen \in Nat \ {0}
  /\ LevelTriggered \in BOOLEAN
  /\ MaxBytes \in Nat

VARIABLES
  fifo,     \* number of bytes in the FIFO
  full,     \* RXFIFO_FULL in the raw interrupt status
  tout,     \* RXFIFO_TOUT in the raw interrupt status
  quiet,    \* no timeout was raised since the last byte arrived
  rxEna,    \* both are enabled (they are switched together)
  posts,    \* messages in the task's queue
  task,     \* where uart_recvTask is
  left,     \* bytes uart_poll still has to read
  arrived   \* bytes that arrived so far

vars == <<fifo, full, tout, quiet, rxEna, posts, task, left, arrived>>

TypeOK ==
  /\ fifo \in 0 .. FifoSize
  /\ full \in BOOLEAN
  /\ tout \in BOOLEAN
  /\ quiet \in BOOLEAN
  /\ rxEna \in BOOLEAN
  /\ posts \in 0 .. QueueLen
  /\ task \in {"idle", "poll", "clear", "enable"}
  /\ left \in 0 .. FifoSize
  /\ arrived \in Nat

\* As conf_uart_receiver leaves it: flags cleared, interrupts enabled.
Init ==
  /\ fifo = 0 /\ full = FALSE /\ tout = FALSE /\ quiet = FALSE
  /\ rxEna = TRUE
  /\ posts = 0
  /\ task = "idle" /\ left = 0
  /\ arrived = 0

----------------------------------------------------------------------------
\* The UART. A byte that finds the FIFO full is lost.
ByteArrives ==
  /\ arrived < MaxBytes
  /\ arrived' = arrived + 1
  /\ fifo' = IF fifo < FifoSize THEN fifo + 1 ELSE fifo
  /\ full' = (full \/ fifo' >= FullThreshold)
  /\ quiet' = TRUE
  /\ UNCHANGED <<tout, rxEna, posts, task, left>>

FullAgain ==
  /\ LevelTriggered /\ ~full /\ fifo >= FullThreshold
  /\ full' = TRUE
  /\ UNCHANGED <<fifo, tout, quiet, rxEna, posts, task, left, arrived>>

\* No byte came for a while, and there are some in the FIFO.
Timeout ==
  /\ ~tout /\ fifo > 0
  /\ LevelTriggered \/ quiet
  /\ tout' = TRUE
  /\ quiet' = FALSE
  /\ UNCHANGED <<fifo, full, rxEna, posts, task, left, arrived>>

----------------------------------------------------------------------------
\* system_os_post, n times; a full queue takes no message, which nobody notices.
Posted(n) == IF posts + n <= QueueLen THEN posts + n ELSE QueueLen

\* Mutant of RxIntr: only RXFIFO_FULL posts.
RxIntrFullPosts ==
  /\ rxEna /\ (full \/ tout)
  /\ rxEna' = FALSE
  /\ posts' = IF full THEN Posted(1) ELSE posts
  /\ full' = FALSE /\ tout' = FALSE
  /\ UNCHANGED <<fifo, quiet, task, left, arrived>>

\* uart0_rx_intr_handler: both causes mask both interrupts, and each clears its own
\* flag and posts a message.
RxIntr ==
  /\ rxEna /\ (full \/ tout)
  /\ rxEna' = FALSE
  /\ posts' = Posted(IF full /\ tout THEN 2 ELSE 1)
  /\ full' = FALSE /\ tout' = FALSE
  /\ UNCHANGED <<fifo, quiet, task, left, arrived>>

\* Mutant of TaskStart: it reads as many bytes as raise the interrupt.
TaskStartReadsThreshold ==
  /\ task = "idle" /\ posts > 0
  /\ posts' = posts - 1
  /\ task' = IF fifo > 0 THEN "poll" ELSE "clear"
  /\ left' = FullThreshold
  /\ UNCHANGED <<fifo, full, tout, quiet, rxEna, arrived>>

\* uart_recvTask takes a message, and uart_poll reads the level of the FIFO.
TaskStart ==
  /\ task = "idle" /\ posts > 0
  /\ posts' = posts - 1
  /\ task' = IF fifo > 0 THEN "poll" ELSE "clear"
  /\ left' = fifo
  /\ UNCHANGED <<fifo, full, tout, quiet, rxEna, arrived>>

\* One byte goes to datalink_receive.
TaskRead ==
  /\ task = "poll"
  /\ fifo' = IF fifo > 0 THEN fifo - 1 ELSE fifo
  /\ left' = left - 1
  /\ task' = IF left' > 0 THEN "poll" ELSE "clear"
  /\ UNCHANGED <<full, tout, quiet, rxEna, posts, arrived>>

TaskClear ==
  /\ task = "clear"
  /\ task' = "enable"
  /\ full' = FALSE /\ tout' = FALSE
  /\ UNCHANGED <<fifo, quiet, rxEna, posts, left, arrived>>

\* Mutant of TaskEnable: the interrupts stay masked.
TaskEnableNot ==
  /\ task = "enable"
  /\ task' = "idle"
  /\ UNCHANGED <<fifo, full, tout, quiet, rxEna, posts, left, arrived>>

TaskEnable ==
  /\ task = "enable"
  /\ task' = "idle"
  /\ rxEna' = TRUE
  /\ UNCHANGED <<fifo, full, tout, quiet, posts, left, arrived>>

Next ==
  \/ ByteArrives
  \/ FullAgain
  \/ Timeout
  \/ RxIntr
  \/ TaskStart
  \/ TaskRead
  \/ TaskClear
  \/ TaskEnable

Spec == Init /\ [][Next]_vars

\* An enabled interrupt is served, the scheduler runs a task with a message, and the
\* UART's timer expires. Bytes need not arrive.
FairSpec ==
  /\ Spec
  /\ WF_vars(RxIntr) /\ WF_vars(Timeout)
  /\ WF_vars(TaskStart) /\ WF_vars(TaskRead) /\ WF_vars(TaskClear) /\ WF_vars(TaskEnable)

----------------------------------------------------------------------------
(***************************************************************************)
(* Properties.                                                             *)
(***************************************************************************)

\* While the receive interrupts are masked somebody is going to unmask them: the
\* task is running or has a message. The handler ignores whether its post was
\* accepted, and leftover messages make the task run with the interrupts enabled.
NoLostWakeup ==
  ~rxEna => posts > 0 \/ task # "idle"

\* uart_poll reads as many bytes as it counted; it never reads an empty FIFO, which
\* would hand garbage to the datalink, although bytes and interrupts come between
\* the count and the reads.
NeverReadsEmpty ==
  task = "poll" => left \in 1 .. fifo

\* Whatever arrives is read at last: an interrupt flag wiped between the last read
\* and the unmasking leaves nothing behind, if the UART raises it again.
FifoDrained ==
  []<>(fifo = 0)
=============================================================================
