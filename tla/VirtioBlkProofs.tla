--------------------------- MODULE VirtioBlkProofs ---------------------------
(***************************************************************************)
(* Proofs about VirtioBlk for every set of queue sizes below 2^16.         *)
(*                                                                         *)
(* The driver keeps its index modulo the size of the queue and the device  *)
(* modulo 2^16, and transfer takes the interrupt bit for the answer to its *)
(* own request.  Both are right only because every request uses up at      *)
(* least two descriptors and none comes back.  The invariant counts them,  *)
(* and relates the positions of driver and device to the interrupt bit.    *)
(***************************************************************************)
EXTENDS VirtioBlk, SequenceTheorems, TLAPS

Probing == {"new", "driver", "virtq", "driver_ok"}
Filling == {"prepare", "ring", "idx"}
Ready == {"idle", "submit"} \cup Filling \cup {"notify", "wait", "clear"}

IsSeq(s) == s \in Seq({s[i] : i \in DOMAIN s})

Devices == [status : SUBSET {"ACKNOWLEDGE", "DRIVER", "DRIVER_OK"}, pfn : {0, 1},
            num_max : Sizes, isr : SUBSET {"USED_BUFFER", "CONFIG_CHANGED"}, seen : Nat,
            busy : BOOLEAN, notified : BOOLEAN, used : Nat]

\* The fields that count.
Types ==
    /\ pc \in Probing \cup Ready \cup {"halt"}
    /\ DOMAIN vq = DOMAIN NoQueue /\ vq.size \in Nat /\ vq.idx \in Nat /\ vq.free_count \in Nat
    /\ DOMAIN call = {"head", "idx", "bufs"}
    /\ dev \in Devices
    /\ IsSeq(requests) /\ IsSeq(served)

Sent == Len(requests)
Taken == Len(served)

\* Every request took two descriptors or more.
Counted == vq.free_count + 2 * Sent <= vq.size /\ vq.size < U16

\* The device is at most one request ahead of its answers and never ahead of
\* the driver.
Positions ==
    /\ dev.seen = dev.used + (IF dev.busy THEN 1 ELSE 0)
    /\ dev.seen <= vq.idx
    /\ Taken = dev.seen
    /\ vq.idx <= Sent

Answered == dev.used = Sent /\ "USED_BUFFER" \notin dev.isr

\* Where the driver is in the handling of its latest request.
Progress ==
    /\ pc \in Probing => /\ "DRIVER_OK" \notin dev.status
                         /\ Sent = 0 /\ Answered
    /\ pc \in {"idle", "submit"} => Answered /\ vq.idx = Sent
    /\ pc = "submit" => Len(call.bufs) \in {2, 3}
    /\ pc \in Filling => /\ vq.idx + 1 = Sent /\ dev.used = vq.idx
                         /\ "USED_BUFFER" \notin dev.isr
    /\ pc \in {"notify", "wait"} =>
          /\ vq.idx = Sent /\ dev.used + 1 >= vq.idx
          /\ "USED_BUFFER" \in dev.isr <=> dev.used = vq.idx
    /\ pc = "clear" => vq.idx = Sent /\ dev.used = vq.idx

IInv == Types /\ Counted /\ Positions /\ Progress

-----------------------------------------------------------------------------
LEMMA Appended ==
    ASSUME NEW s, IsSeq(s), NEW e
    PROVE  IsSeq(Append(s, e)) /\ Len(s) \in Nat /\ Len(Append(s, e)) = Len(s) + 1
<1> DEFINE S == {s[i] : i \in DOMAIN s} \cup {e}
           t == Append(s, e)
<1>1. s \in Seq(S)
    <2>1. s \in Seq({s[i] : i \in DOMAIN s})
        BY DEF IsSeq
    <2>2. Len(s) \in Nat /\ DOMAIN s = 1..Len(s) /\ s = [i \in 1..Len(s) |-> s[i]]
        BY <2>1
    <2>3. \A i \in 1..Len(s) : s[i] \in S
        BY <2>2
    <2> HIDE DEF S
    <2> QED
        BY <2>2, <2>3
<1>2. e \in S
    OBVIOUS
<1> HIDE DEF S
<1>3. t \in Seq(S) /\ Len(t) = Len(s) + 1 /\ Len(s) \in Nat
    BY <1>1, <1>2, AppendProperties
<1> HIDE DEF t
<1>4. IsSeq(t)
    <2> DEFINE R == {t[i] : i \in DOMAIN t}
    <2>1. Len(t) \in Nat /\ DOMAIN t = 1..Len(t) /\ t = [i \in 1..Len(t) |-> t[i]]
        BY <1>3
    <2>2. \A i \in 1..Len(t) : t[i] \in R
        BY <2>1
    <2>3. R = {t[i] : i \in DOMAIN t}
        OBVIOUS
    <2> HIDE DEF R
    <2>4. t \in Seq(R)
        BY <2>1, <2>2
    <2> QED
        BY <2>3, <2>4 DEF IsSeq
<1> QED
    BY <1>3, <1>4 DEF t

LEMMA Counts == ASSUME Types PROVE Sent \in Nat /\ Taken \in Nat
BY DEF Types, IsSeq, Sent, Taken

LEMMA U16Nat == U16 \in Nat /\ U16 # 0
BY SMT DEF U16

LEMMA InitInv == Init => IInv
<1> SUFFICES ASSUME Init PROVE IInv
    OBVIOUS
<1>1. IsSeq(<<>>) /\ Len(<<>>) = 0
    BY DEF IsSeq
<1>2. Sent = 0 /\ Taken = 0
    BY <1>1 DEF Init, Sent, Taken
<1>3. /\ DOMAIN vq = DOMAIN NoQueue
      /\ vq.size = 0 /\ vq.idx = 0 /\ vq.free_count = 0
      /\ DOMAIN call = {"head", "idx", "bufs"}
    BY DEF Init, NoQueue
<1>4. /\ dev \in Devices /\ dev.status = {} /\ dev.isr = {}
      /\ dev.seen = 0 /\ dev.used = 0 /\ dev.busy = FALSE
    BY DEF Init, Devices
<1>5. Types
    BY <1>1, <1>3, <1>4 DEF Init, Types, Probing
<1> QED
    BY <1>2, <1>3, <1>4, <1>5, U16Nat
       DEF Init, IInv, Counted, Positions, Progress, Answered, Probing, Filling
-----------------------------------------------------------------------------
(* The driver.                                                             *)

LEMMA QueueFields ==
    ASSUME NEW n, NEW d, NEW r, NEW f, NEW c
    PROVE  LET q == [size |-> n, descr |-> d, ring |-> r, idx |-> 0, first_free |-> f,
                     free_count |-> c]
           IN  /\ DOMAIN q = DOMAIN NoQueue
               /\ q.size = n /\ q.idx = 0 /\ q.free_count = c
BY DEF NoQueue

LEMMA NewQueue ==
    ASSUME NEW n
    PROVE  /\ DOMAIN new_virtq(n) = DOMAIN NoQueue
           /\ new_virtq(n).size = n /\ new_virtq(n).idx = 0 /\ new_virtq(n).free_count = n
<1> DEFINE d == [i \in 0..(n - 1) |-> [next |-> (i + 1) % n, flags |-> {}, buf |-> NoBuffer]]
           r == [i \in 0..(n - 1) |-> 0]
<1>1. new_virtq(n) = [size |-> n, descr |-> d, ring |-> r, idx |-> 0, first_free |-> 0,
                      free_count |-> n]
    BY Zenon DEF new_virtq
<1> HIDE DEF d, r
<1> QED
    BY <1>1, QueueFields

LEMMA ProbeStep ==
    ASSUME IInv, acknowledge \/ driver \/ virtq_panic \/ allocate_virtq \/ driver_ok
    PROVE  IInv'
<1> USE DEF Probing, Ready, Filling
<1>1. Sent \in Nat /\ Taken \in Nat /\ Sent' = Sent /\ Taken' = Taken
      /\ UNCHANGED <<requests, served, call>>
    BY Counts DEF IInv, Sent, Taken, acknowledge, driver, virtq_panic, allocate_virtq, driver_ok
<1>2. /\ dev' \in Devices /\ dev'.isr = dev.isr /\ dev'.seen = dev.seen
      /\ dev'.busy = dev.busy /\ dev'.used = dev.used
      /\ pc' # "idle" => ("DRIVER_OK" \in dev'.status <=> "DRIVER_OK" \in dev.status)
    BY DEF IInv, Types, Devices, acknowledge, driver, virtq_panic, allocate_virtq, driver_ok,
           update_status, goto
<1>3. /\ pc \in Probing /\ pc' \in Probing \cup {"idle", "halt"}
      /\ Sent = 0 /\ Answered
    BY DEF IInv, Progress, acknowledge, driver, virtq_panic, allocate_virtq, driver_ok, goto
<1>4. dev.seen = 0 /\ dev.used = 0 /\ dev.busy = FALSE
    BY <1>3 DEF IInv, Types, Devices, Positions, Answered
<1>5. CASE allocate_virtq
    <2>0. vq' = new_virtq(dev.num_max)
        BY <1>5 DEF allocate_virtq
    <2>1. dev.num_max \in Nat /\ dev.num_max < U16
        <3>1. dev.num_max \in Sizes
            BY DEF IInv, Types, Devices
        <3> QED
            BY <3>1, SizesAssumption
    <2>2. PICK n \in Nat : n = dev.num_max /\ n < U16
        BY <2>1
    <2>3. /\ DOMAIN vq' = DOMAIN NoQueue /\ vq'.size = n /\ vq'.idx = 0 /\ vq'.free_count = n
        BY <2>0, <2>2, NewQueue
    <2>4. vq'.size \in Nat /\ vq'.idx \in Nat /\ vq'.free_count \in Nat
        BY <2>3
    <2>6. Types'
        BY <1>1, <1>2, <1>3, <2>3, <2>4 DEF IInv, Types
    <2>7. Counted'
        BY <1>1, <1>3, <2>2, <2>3 DEF Counted
    <2>8. Positions'
        BY <1>1, <1>2, <1>3, <1>4, <2>3 DEF IInv, Positions
    <2>5. Progress'
        BY <1>1, <1>2, <1>3, <1>5, <2>3
           DEF IInv, Progress, Answered, allocate_virtq, goto
    <2> QED
        BY <2>5, <2>6, <2>7, <2>8 DEF IInv
<1>6. CASE UNCHANGED vq
    <2>1. Types'
        BY <1>1, <1>2, <1>3, <1>6 DEF IInv, Types
    <2>2. Counted' /\ Positions'
        BY <1>1, <1>2, <1>6 DEF IInv, Counted, Positions
    <2>3. vq.idx = 0
        BY <1>3 DEF IInv, Types, Positions
    <2>4. Progress'
        BY <1>1, <1>2, <1>3, <1>6, <2>3 DEF IInv, Progress, Answered
    <2> QED
        BY <2>1, <2>2, <2>4 DEF IInv
<1> QED
    BY <1>5, <1>6 DEF acknowledge, driver, virtq_panic, driver_ok

\* A request has two buffers or three.
LEMMA BufferCount == ASSUME NEW r, NEW kind PROVE Len(buffers(r, kind)) \in {2, 3}
BY DEF buffers

LEMMA TransferStep == ASSUME IInv, transfer PROVE IInv'
<1> USE DEF Probing, Ready, Filling
<1>1. /\ pc = "idle" /\ pc' = "submit" /\ UNCHANGED <<vq, dev, requests, served>>
      /\ Sent' = Sent /\ Taken' = Taken
    BY DEF transfer, goto, Sent, Taken
<1>2. PICK kind : call' = [call EXCEPT !.bufs = buffers(Len(requests) + 1, kind)]
    BY DEF transfer
<1>3. DOMAIN call' = {"head", "idx", "bufs"} /\ Len(call'.bufs) \in {2, 3}
    BY <1>2, BufferCount DEF IInv, Types
<1>4. Types'
    BY <1>1, <1>3 DEF IInv, Types
<1>5. Counted' /\ Positions'
    BY <1>1 DEF IInv, Counted, Positions
<1>6. Progress'
    BY <1>1, <1>3 DEF IInv, Progress, Answered
<1> QED
    BY <1>4, <1>5, <1>6 DEF IInv

LEMMA SubmitStep == ASSUME IInv, submit_panic \/ submit_take PROVE IInv'
<1> USE DEF Probing, Ready, Filling
<1>1. CASE submit_panic
    <2>1. pc' = "halt" /\ UNCHANGED <<vq, call, dev, requests, served>>
          /\ Sent' = Sent /\ Taken' = Taken
        BY <1>1 DEF submit_panic, goto, Sent, Taken
    <2> QED
        BY <2>1 DEF IInv, Types, Counted, Positions, Progress
<1>2. CASE submit_take
    <2> DEFINE k == total_req
    <2>1. /\ pc = "submit" /\ pc' = "prepare" /\ k <= vq.free_count
          /\ UNCHANGED <<dev, served>> /\ Taken' = Taken
          /\ call' = [call EXCEPT !.head = vq.first_free, !.idx = vq.first_free]
        BY <1>2 DEF submit_take, goto, Taken
    <2>2. k \in {2, 3} /\ Answered /\ vq.idx = Sent
        BY <2>1 DEF IInv, Progress, total_req
    <2>3. /\ DOMAIN vq' = DOMAIN NoQueue /\ vq'.size = vq.size /\ vq'.idx = vq.idx
          /\ vq'.free_count = vq.free_count - k
        BY <1>2 DEF submit_take, IInv, Types, NoQueue
    <2>4. IsSeq(requests') /\ Sent' = Sent + 1 /\ Sent \in Nat
        BY <1>2, Appended DEF submit_take, IInv, Types, Sent
    <2> HIDE DEF k
    <2>5. DOMAIN call' = {"head", "idx", "bufs"}
        BY <2>1 DEF IInv, Types
    <2>6. vq'.free_count \in Nat /\ vq'.free_count + 2 <= vq.free_count
        BY <2>1, <2>2, <2>3 DEF IInv, Types
    <2>7. Types'
        BY <2>1, <2>3, <2>4, <2>5, <2>6 DEF IInv, Types
    <2>8. Counted'
        BY <2>3, <2>4, <2>6 DEF IInv, Types, Counted
    <2>9. Positions'
        BY <2>1, <2>3, <2>4 DEF IInv, Types, Positions
    <2>10. Progress'
        BY <2>1, <2>2, <2>3, <2>4 DEF IInv, Progress, Answered
    <2> QED
        BY <2>7, <2>8, <2>9, <2>10 DEF IInv
<1> QED
    BY <1>1, <1>2
LEMMA FillStep == ASSUME IInv, prepare \/ write_ring PROVE IInv'
<1> USE DEF Probing, Ready, Filling
<1>1. /\ pc \in {"prepare", "ring"} /\ pc' \in Filling
      /\ UNCHANGED <<dev, requests, served>> /\ Sent' = Sent /\ Taken' = Taken
    BY DEF prepare, write_ring, goto, Sent, Taken
<1>2. /\ DOMAIN vq' = DOMAIN NoQueue /\ vq'.size = vq.size /\ vq'.idx = vq.idx
      /\ vq'.free_count = vq.free_count
    BY DEF prepare, write_ring, IInv, Types, NoQueue
<1>3. DOMAIN call' = {"head", "idx", "bufs"}
    BY DEF prepare, write_ring, IInv, Types
<1>4. Types'
    BY <1>1, <1>2, <1>3 DEF IInv, Types
<1>5. Counted' /\ Positions'
    BY <1>1, <1>2 DEF IInv, Counted, Positions
<1>6. Progress'
    BY <1>1, <1>2 DEF IInv, Progress
<1> QED
    BY <1>4, <1>5, <1>6 DEF IInv

\* The index does not wrap: a queue of n descriptors ends after n / 2 requests.
LEMMA PublishStep == ASSUME IInv, write_idx PROVE IInv'
<1> USE DEF Probing, Ready, Filling
<1>1. /\ pc = "idx" /\ pc' = "notify"
      /\ UNCHANGED <<call, dev, requests, served>> /\ Sent' = Sent /\ Taken' = Taken
    BY DEF write_idx, goto, Sent, Taken
<1>2. /\ DOMAIN vq' = DOMAIN NoQueue /\ vq'.size = vq.size
      /\ vq'.idx = (vq.idx + 1) % vq.size /\ vq'.free_count = vq.free_count
    BY DEF write_idx, IInv, Types, NoQueue
<1>3. vq.idx + 1 = Sent /\ dev.used = vq.idx /\ "USED_BUFFER" \notin dev.isr
    BY <1>1 DEF IInv, Progress
<1>4. /\ Sent \in Nat /\ vq.idx \in Nat /\ vq.size \in Nat /\ vq.free_count \in Nat
      /\ vq.free_count + 2 * Sent <= vq.size
    BY Counts DEF IInv, Types, Counted
<1>5. vq.idx + 1 < vq.size
    BY <1>3, <1>4
<1>6. \A i \in Nat, n \in Nat : i < n => i % n = i
    OBVIOUS
<1>7. vq'.idx = vq.idx + 1
    BY <1>2, <1>4, <1>5, <1>6
<1>8. Types'
    BY <1>1, <1>2, <1>4, <1>7 DEF IInv, Types
<1>9. Counted'
    BY <1>1, <1>2 DEF IInv, Counted
<1>10. Positions'
    BY <1>1, <1>3, <1>4, <1>7 DEF IInv, Types, Devices, Positions
<1>11. Progress'
    BY <1>1, <1>3, <1>4, <1>7 DEF IInv, Progress
<1> QED
    BY <1>8, <1>9, <1>10, <1>11 DEF IInv

LEMMA WaitStep == ASSUME IInv, notify \/ wait \/ clear_interrupts PROVE IInv'
<1> USE DEF Probing, Ready, Filling
<1>1. /\ UNCHANGED <<vq, call, requests, served>> /\ Sent' = Sent /\ Taken' = Taken
      /\ pc \in {"notify", "wait", "clear"}
      /\ pc' = IF pc = "notify" THEN "wait" ELSE IF pc = "wait" THEN "clear" ELSE "idle"
    BY DEF notify, wait, clear_interrupts, goto, Sent, Taken
<1>2. /\ dev' \in Devices /\ dev'.seen = dev.seen /\ dev'.busy = dev.busy
      /\ dev'.used = dev.used /\ dev'.status = dev.status
      /\ dev'.isr = IF pc = "clear" THEN dev.isr \ {"USED_BUFFER"} ELSE dev.isr
    <2>1. CASE notify
        <3>1. pc = "notify" /\ dev' = [dev EXCEPT !.notified = TRUE] /\ dev \in Devices
            BY <2>1 DEF notify, IInv, Types
        <3> QED
            BY <3>1 DEF Devices
    <2>2. CASE wait
        <3>1. pc = "wait" /\ dev' = dev /\ dev \in Devices
            BY <2>2 DEF wait, IInv, Types
        <3> QED
            BY <3>1 DEF Devices
    <2>3. CASE clear_interrupts
        <3>1. /\ pc = "clear" /\ dev' = [dev EXCEPT !.isr = @ \ {"USED_BUFFER"}]
              /\ dev \in Devices
            BY <2>3 DEF clear_interrupts, IInv, Types
        <3> QED
            BY <3>1 DEF Devices
    <2> QED
        BY <2>1, <2>2, <2>3
<1>3. pc = "wait" => "USED_BUFFER" \in dev.isr
    BY DEF notify, wait, clear_interrupts
<1>4. Types'
    BY <1>1, <1>2 DEF IInv, Types
<1>5. Counted' /\ Positions'
    BY <1>1, <1>2 DEF IInv, Counted, Positions
<1>6. Progress'
    BY <1>1, <1>2, <1>3 DEF IInv, Progress, Answered
<1> QED
    BY <1>4, <1>5, <1>6 DEF IInv

-----------------------------------------------------------------------------
(* The device.                                                             *)

LEMMA TakeStep == ASSUME IInv, device_take PROVE IInv'
<1> USE DEF Probing, Ready, Filling
<1>1. /\ UNCHANGED <<pc, vq, call, requests>> /\ Sent' = Sent
      /\ "DRIVER_OK" \in dev.status /\ ~dev.busy /\ dev.seen # vq.idx
    BY DEF device_take, Sent
<1>2. IsSeq(served') /\ Taken' = Taken + 1 /\ Taken \in Nat
    BY Appended DEF device_take, IInv, Types, Taken
<1>3. /\ dev.seen \in Nat /\ dev.used \in Nat /\ vq.idx \in Nat /\ vq.size \in Nat
      /\ vq.free_count \in Nat /\ Sent \in Nat
    BY Counts DEF IInv, Types, Devices
<1>4. /\ dev.seen = dev.used /\ dev.seen + 1 <= vq.idx /\ vq.idx <= Sent /\ Taken = dev.seen
    BY <1>1, <1>3 DEF IInv, Positions
<1>5. dev.seen + 1 < U16
    BY <1>3, <1>4, U16Nat DEF IInv, Counted
<1>6. \A i \in Nat : i < U16 => i % U16 = i
    BY U16Nat
<1>7. (dev.seen + 1) % U16 = dev.seen + 1
    BY <1>3, <1>5, <1>6
<1>8. /\ dev' \in Devices /\ dev'.seen = dev.seen + 1 /\ dev'.busy = TRUE
      /\ dev'.used = dev.used /\ dev'.isr = dev.isr /\ dev'.status = dev.status
    <2>1. dev' = [dev EXCEPT !.seen = dev.seen + 1, !.busy = TRUE, !.notified = FALSE]
        <3> DEFINE m == (dev.seen + 1) % U16
        <3>1. dev' = [dev EXCEPT !.seen = m, !.busy = TRUE, !.notified = FALSE]
            BY Zenon DEF device_take
        <3>2. m = dev.seen + 1
            BY <1>7
        <3> HIDE DEF m
        <3> QED
            BY <3>1, <3>2
    <2>2. dev \in Devices /\ dev.seen + 1 \in Nat
        BY <1>3 DEF IInv, Types
    <2>3. dev' \in Devices
        BY <2>1, <2>2 DEF Devices
    <2>4. /\ dev'.seen = dev.seen + 1
          /\ dev'.used = dev.used /\ dev'.isr = dev.isr /\ dev'.status = dev.status
        BY <2>1, <2>2 DEF Devices
    <2>5. dev'.busy = TRUE
        BY <2>1, <2>2 DEF Devices
    <2> QED
        BY <2>3, <2>4, <2>5
<1>9. Types'
    BY <1>1, <1>2, <1>8 DEF IInv, Types
<1>10. Counted'
    BY <1>1 DEF IInv, Counted
<1>11. Positions'
    BY <1>1, <1>2, <1>3, <1>4, <1>8 DEF Positions
<1>12. Progress'
    BY <1>1, <1>8 DEF IInv, Progress, Answered
<1> QED
    BY <1>9, <1>10, <1>11, <1>12 DEF IInv

\* The device answers only a request that transfer is still waiting for.
LEMMA UseStep == ASSUME IInv, device_use PROVE IInv'
<1> USE DEF Probing, Ready, Filling
<1>1. /\ UNCHANGED <<pc, vq, call, requests, served>> /\ Sent' = Sent /\ Taken' = Taken
      /\ dev.busy
    BY DEF device_use, Sent, Taken
<1>2. /\ dev.seen \in Nat /\ dev.used \in Nat /\ vq.idx \in Nat /\ Sent \in Nat
    BY Counts DEF IInv, Types, Devices
<1>3. /\ dev.seen = dev.used + 1 /\ dev.seen <= vq.idx /\ vq.idx <= Sent /\ Taken = dev.seen
    BY <1>1 DEF IInv, Positions
<1>4. /\ dev' \in Devices /\ dev'.seen = dev.seen /\ dev'.busy = FALSE
      /\ dev'.used = dev.used + 1 /\ "USED_BUFFER" \in dev'.isr /\ dev'.status = dev.status
    <2>1. dev' = [dev EXCEPT !.busy = FALSE, !.used = dev.used + 1,
                             !.isr = dev.isr \cup {"USED_BUFFER"}]
        BY DEF device_use
    <2>2. dev \in Devices /\ dev.used + 1 \in Nat
        BY <1>2 DEF IInv, Types
    <2>3. dev' \in Devices
        BY <2>1, <2>2 DEF Devices
    <2>4. /\ dev'.seen = dev.seen /\ dev'.used = dev.used + 1
          /\ "USED_BUFFER" \in dev'.isr /\ dev'.status = dev.status
        BY <2>1, <2>2 DEF Devices
    <2>5. dev'.busy = FALSE
        BY <2>1, <2>2 DEF Devices
    <2> QED
        BY <2>3, <2>4, <2>5
<1>5. pc \in {"notify", "wait", "halt"}
    BY <1>2, <1>3 DEF IInv, Types, Progress, Answered
<1>6. Types'
    BY <1>1, <1>4 DEF IInv, Types
<1>7. Counted'
    BY <1>1 DEF IInv, Counted
<1>8. Positions'
    BY <1>1, <1>2, <1>3, <1>4 DEF Positions
<1>9. pc \in {"notify", "wait"} => vq.idx = Sent /\ dev.used + 1 = vq.idx
    BY <1>2, <1>3 DEF IInv, Progress
<1>10. Progress'
    BY <1>1, <1>2, <1>4, <1>5, <1>9 DEF Progress
<1> QED
    BY <1>6, <1>7, <1>8, <1>10 DEF IInv

LEMMA ConfigStep == ASSUME IInv, device_config PROVE IInv'
<1>1. /\ UNCHANGED <<pc, vq, call, requests, served>> /\ Sent' = Sent /\ Taken' = Taken
    BY DEF device_config, Sent, Taken
<1>2. /\ dev' \in Devices /\ dev'.seen = dev.seen /\ dev'.busy = dev.busy
      /\ dev'.used = dev.used /\ dev'.status = dev.status
      /\ "USED_BUFFER" \in dev'.isr <=> "USED_BUFFER" \in dev.isr
    BY DEF device_config, IInv, Types, Devices
<1>3. Types'
    BY <1>1, <1>2 DEF IInv, Types
<1>4. Counted' /\ Positions'
    BY <1>1, <1>2 DEF IInv, Counted, Positions
<1>5. Progress'
    BY <1>1, <1>2 DEF IInv, Progress, Answered
<1> QED
    BY <1>3, <1>4, <1>5 DEF IInv

-----------------------------------------------------------------------------
LEMMA StepInv == IInv /\ [Next]_vars => IInv'
<1> SUFFICES ASSUME IInv, [Next]_vars PROVE IInv'
    OBVIOUS
<1>1. CASE UNCHANGED vars
    BY <1>1 DEF vars, IInv, Types, IsSeq, Counted, Positions, Progress, Answered, Sent, Taken
<1>2. CASE Driver
    BY <1>2, ProbeStep, TransferStep, SubmitStep, FillStep, PublishStep, WaitStep DEF Driver
<1>3. CASE Device
    BY <1>3, TakeStep, UseStep, ConfigStep DEF Device
<1> QED
    BY <1>1, <1>2, <1>3 DEF Next

\* When transfer returns, the device has finished its request, for every queue:
\* the interrupt bit that transfer waits for is never left over from an earlier
\* one.
THEOREM TransfersComplete == Spec => []TransferComplete
<1>1. IInv => TransferComplete
    BY DEF IInv, Progress, Answered, Sent, TransferComplete
<1> QED
    BY <1>1, InitInv, StepInv, PTL DEF Spec

\* The available index counts the requests, for every queue: it is reduced
\* modulo the size of the queue, but the descriptors run out first.
THEOREM IndexCounts == Spec => []IndexNeverWraps
<1>1. IInv => IndexNeverWraps
    BY DEF IInv, Progress, Sent, IndexNeverWraps
<1> QED
    BY <1>1, InitInv, StepInv, PTL DEF Spec
=============================================================================
