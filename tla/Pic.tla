-------------------------------- MODULE Pic --------------------------------
(***************************************************************************)
(* The two cascaded interrupt controllers of i8259.c.  A chip is a record, *)
(* its registers are sets of the inputs 0 .. 7; the slave (chip 1) drives  *)
(* input 2 of the master (chip 0).  Every operator is a critical section   *)
(* of the controller's lock.  The guest never asks for automatic EOIs, and *)
(* the trigger mode of the inputs (ELCR) is what the firmware left.        *)
(***************************************************************************)
EXTENDS Integers, FiniteSets

CONSTANTS
  Pins,       \* the lines that devices drive, 0 .. 15
  LevelPins   \* those that are level triggered (ELCR)

ASSUME PicPinsAssumption ==
  /\ Pins \subseteq (0 .. 15) \ {2}
  /\ LevelPins \subseteq Pins \ {0, 1, 2, 8, 13}     \* elcr_mask

VARIABLE
  pic         \* [chip, output, wakeup_needed, stale]

Chip(p) == p \div 8
Input(p) == p % 8
elcr(n) == {Input(p) : p \in {q \in LevelPins : Chip(q) = n}}

kvm_pic_init ==
  [chip |-> [n \in 0 .. 1 |->
      [irr |-> {}, last_irr |-> {}, imr |-> {}, isr |-> {}, priority_add |-> 0,
       special_fully_nested_mode |-> FALSE, init_state |-> 0, init4 |-> FALSE, poll |-> FALSE]],
   output |-> FALSE, wakeup_needed |-> FALSE,
   stale |-> FALSE]    \* auxiliary: inputs changed, pic_update_irq was not called since

-----------------------------------------------------------------------------
pic_set_irq1(s, level_triggered, irq, level) ==
  LET edge == level /\ irq \notin s.last_irr
  IN  [s EXCEPT
        !.irr = IF level_triggered THEN IF level THEN @ \union {irq} ELSE @ \ {irq}
                ELSE IF edge THEN @ \union {irq} ELSE @,
        !.last_irr = IF level THEN @ \union {irq} ELSE @ \ {irq}]

(* The highest priority found in mask, 8 if there is none. *)
get_priority(s, mask) ==
  LET found == {k \in 0 .. 7 : ((k + s.priority_add) % 8) \in mask}
  IN  IF found = {} THEN 8 ELSE CHOOSE k \in found : \A j \in found : k <= j

(* The input that chip n wants served, -1 if none. *)
pic_get_irq(p, n) ==
  LET s == p.chip[n]
      priority == get_priority(s, s.irr \ s.imr)
      nested == s.special_fully_nested_mode /\ n = 0
      cur_priority == get_priority(s, IF nested THEN s.isr \ {2} ELSE s.isr)
  IN  IF priority < cur_priority THEN (priority + s.priority_add) % 8 ELSE -1

pic_irq_request(p, level) ==
  [p EXCEPT !.wakeup_needed = @ \/ ~p.output, !.output = level, !.stale = FALSE]

pic_update_irq(p) ==
  LET up == pic_set_irq1(p.chip[0], FALSE, 2, TRUE)
      q == IF pic_get_irq(p, 1) >= 0
             THEN [p EXCEPT !.chip[0] = pic_set_irq1(up, FALSE, 2, FALSE)] ELSE p
  IN  pic_irq_request(q, pic_get_irq(q, 0) >= 0)

kvm_pic_set_irq(p, pin, level) ==
  pic_update_irq([p EXCEPT !.chip[Chip(pin)] =
                    pic_set_irq1(@, Input(pin) \in elcr(Chip(pin)), Input(pin), level)])

pic_intack(p, n, irq) ==
  [p EXCEPT !.chip[n].isr = @ \union {irq},
            !.chip[n].irr = IF irq \in elcr(n) THEN @ ELSE @ \ {irq}]

(* The vCPU takes an interrupt: its line, 7 or 15 when it was spurious. *)
kvm_pic_read_irq(p0) ==
  LET p == [p0 EXCEPT !.output = FALSE]
      irq == pic_get_irq(p, 0)
      q == pic_intack(p, 0, irq)
      irq2 == pic_get_irq(q, 1)
  IN  CASE irq < 0 -> [pic |-> pic_update_irq(p), irq |-> 7]
        [] irq = 2 /\ irq2 < 0 -> [pic |-> pic_update_irq(q), irq |-> 15]
        [] irq = 2 /\ irq2 >= 0 -> [pic |-> pic_update_irq(pic_intack(q, 1, irq2)), irq |-> irq2 + 8]
        [] OTHER -> [pic |-> pic_update_irq(q), irq |-> irq]

-----------------------------------------------------------------------------
(* What the guest writes to a chip.  pic_clear_isr drops the lock for the  *)
(* acknowledge notifiers; the writes that go on to pic_update_irq after it *)
(* are in Eois, and that second critical section is VcpuRun's              *)
(* PicEoiUpdate.                                                           *)
pic_clear_isr(p, n, irqs) == [p EXCEPT !.chip[n].isr = @ \ irqs]

kvm_pic_reset(p, n, init4) ==
  LET s == p.chip[n]
      edge_irr == s.irr \ elcr(n)
      q == [p EXCEPT !.stale = TRUE, !.chip[n] =
              [s EXCEPT !.last_irr = {}, !.irr = @ \intersect elcr(n), !.imr = {},
                 !.priority_add = 0, !.init_state = 1, !.init4 = init4,
                 !.special_fully_nested_mode = init4 /\ @]]
  IN  pic_clear_isr(q, n, edge_irr)

InService(p, n) ==
  LET s == p.chip[n] IN (get_priority(s, s.isr) + s.priority_add) % 8

Eois == {"eoi", "rotate_eoi"}

pic_eoi(p, n, cmd) ==
  LET irq == InService(p, n)
      q == pic_clear_isr(p, n, {irq})
  IN  IF cmd = "rotate_eoi" THEN [q EXCEPT !.chip[n].priority_add = (irq + 1) % 8] ELSE q

(* ICW1 .. ICW4, the mask (OCW1), a rotation and a poll command. *)
pic_ioport_write(p, n, cmd, val) ==
  CASE cmd = "icw1" -> kvm_pic_reset(p, n, TRUE)
    [] cmd = "poll" -> [p EXCEPT !.chip[n].poll = TRUE]
    [] cmd = "priority" -> pic_update_irq([p EXCEPT !.chip[n].priority_add = (val + 1) % 8])
    [] cmd = "imr" -> pic_update_irq([p EXCEPT !.chip[n].imr = val])
    [] cmd = "icw2" -> [p EXCEPT !.chip[n].init_state = 2]
    [] cmd = "icw3" -> [p EXCEPT !.chip[n].init_state = IF @ = 2 /\ p.chip[n].init4 THEN 3 ELSE 0]
    [] cmd = "icw4" -> [p EXCEPT !.stale = TRUE, !.chip[n].init_state = 0,
                                !.chip[n].special_fully_nested_mode = val]

(* The data port means what init_state says it means. *)
Accepts(p, n, cmd) ==
  CASE cmd = "imr" -> p.chip[n].init_state = 0
    [] cmd = "icw2" -> p.chip[n].init_state = 1
    [] cmd = "icw3" -> p.chip[n].init_state = 2
    [] cmd = "icw4" -> p.chip[n].init_state = 3
    [] OTHER -> TRUE

(* A read after a poll command takes the interrupt without the vCPU.  With *)
(* one found, pic_clear_isr drops the lock; PicEoiUpdate follows unless it *)
(* was the master's cascade input.                                         *)
PollUpdates(p, n) == pic_get_irq(p, n) >= 0 /\ ~(n = 0 /\ pic_get_irq(p, n) = 2)

pic_poll_read(p, n) ==
  LET ret == pic_get_irq(p, n)
      q == [p EXCEPT !.chip[n].poll = FALSE]
      m == IF n = 1 THEN [q EXCEPT !.chip[0].isr = @ \ {2}, !.chip[0].irr = @ \ {2}] ELSE q
      r == [m EXCEPT !.chip[n].irr = @ \ {ret}, !.stale = TRUE]
  IN  IF ret < 0 THEN pic_update_irq(q) ELSE pic_clear_isr(r, n, {ret})
=============================================================================
