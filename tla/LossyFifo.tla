------------------------------ MODULE LossyFifo ------------------------------
(***************************************************************************)
(* What the driver promises the program that reads the device file: a      *)
(* queue from which packets come out once and in the order they came in,   *)
(* and that loses packets in four ways only.  One may be corrupted on the  *)
(* bus; one that repeats the packet accepted before it is rejected; one    *)
(* may be missed, but only when the reader has emptied the queue; and when *)
(* Capacity packets have been accepted since the driver last found the     *)
(* queue empty, one more breaks it until the file is opened again.         *)
(***************************************************************************)
EXTENDS Integers, Sequences

CONSTANTS Content,   \* what the device sends, in order; a packet is its place there
          Capacity

VARIABLES
    taken,       \* packets the driver has been brought
    accepted,    \* the last one it accepted, 0 if none
    rejected,    \* those it rejected as repetitions, in this session
    queue, delivered,
    burst,       \* packets accepted since the driver last found the queue empty
    broken

fvars == <<taken, accepted, rejected, queue, delivered, burst, broken>>

FifoInit ==
    /\ taken = 0 /\ accepted = 0 /\ rejected = {}
    /\ queue = <<>> /\ delivered = <<>> /\ burst = 0 /\ broken = FALSE

Take == taken < Len(Content) /\ taken' = taken + 1

Corrupt == Take /\ UNCHANGED <<accepted, rejected, queue, delivered, burst, broken>>

Reject ==
    /\ Take
    /\ accepted # 0 /\ Content[taken'] = Content[accepted]
    /\ rejected' = rejected \cup {taken'}
    /\ UNCHANGED <<accepted, queue, delivered, burst, broken>>

Put ==
    /\ ~broken /\ Take /\ burst < Capacity
    /\ accepted' = taken'
    /\ queue' = Append(queue, taken')
    /\ burst' = burst + 1
    /\ UNCHANGED <<rejected, delivered, broken>>

Miss ==
    /\ ~broken /\ Take /\ queue = <<>> /\ burst < Capacity
    /\ accepted' = taken'
    /\ burst' = burst + 1
    /\ UNCHANGED <<rejected, queue, delivered, broken>>

\* The reader takes n packets.
Get(n) ==
    /\ ~broken /\ n <= Len(queue)
    /\ delivered' = delivered \o SubSeq(queue, 1, n)
    /\ queue' = SubSeq(queue, n + 1, Len(queue))
    /\ UNCHANGED <<taken, accepted, rejected, burst, broken>>

Empty ==
    /\ ~broken /\ queue = <<>>
    /\ burst' = 0
    /\ UNCHANGED <<taken, accepted, rejected, queue, delivered, broken>>

\* From the overflow on nothing is promised of what is delivered.
Overrun ==
    /\ ~broken /\ Take /\ burst >= Capacity
    /\ accepted' = taken'
    /\ broken' = TRUE /\ queue' = <<>> /\ delivered' = <<>> /\ burst' = 0
    /\ UNCHANGED rejected

PutBroken ==
    /\ broken /\ Take
    /\ accepted' = taken'
    /\ UNCHANGED <<rejected, queue, delivered, burst, broken>>

\* The file is opened.
Reset ==
    /\ rejected' = {} /\ queue' = <<>> /\ delivered' = <<>> /\ burst' = 0 /\ broken' = FALSE
    /\ UNCHANGED <<taken, accepted>>

FifoNext ==
    \/ Corrupt \/ Reject \/ Put \/ Miss \/ Empty \/ Overrun \/ PutBroken \/ Reset
    \/ \E n \in 1 .. Len(queue) : Get(n)

FifoSpec == FifoInit /\ [][FifoNext]_fvars
=============================================================================
