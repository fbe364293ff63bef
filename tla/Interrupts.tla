----------------------------- MODULE Interrupts -----------------------------
(***************************************************************************)
(* Interrupt delivery: the two 8259 interrupt controllers as               *)
(* kernel/arch/x86_64/idt.c programs them, the boot sequence of            *)
(* kernel/core/main.c that installs the handlers, and isr_dispatch.        *)
(*                                                                         *)
(* The controllers themselves are hardware: lines 8 to 15 belong to the    *)
(* slave, whose output is line 2 of the master; a line is delivered unless *)
(* it is masked, or one of at least its priority is in service.  The       *)
(* gates are interrupt gates, so the processor takes no interrupt while a  *)
(* handler runs.                                                           *)
(***************************************************************************)
EXTENDS Integers, Sequences

CONSTANT Lines   \* the lines with a device, in the order main.c installs them

Irqs == 0 .. 15
Devices == {Lines[i] : i \in DOMAIN Lines}
Cascade == 2

VARIABLES
    masked,     \* the two mask registers
    requested,  \* the lines whose request is latched
    service,    \* the lines in service
    handlers,   \* the lines with an entry in irq_handlers
    installed,  \* how many of Lines the boot sequence has installed
    pc,         \* "boot", "run", or in isr_dispatch "handler" or "ack"
    irq         \* the line isr_dispatch was entered for

vars == <<masked, requested, service, handlers, installed, pc, irq>>

\* idt_init and pic_init: only lines 0 and 1 are open.
Init ==
    /\ masked = Irqs \ {0, 1}
    /\ requested = {} /\ service = {} /\ handlers = {}
    /\ installed = 0
    /\ pc = "boot" /\ irq = 0

irq_install ==
    /\ pc = "boot" /\ installed < Len(Lines)
    /\ LET line == Lines[installed + 1]
       IN  handlers' = handlers \cup {line} /\ masked' = masked \ {line}
    /\ installed' = installed + 1
    /\ UNCHANGED <<requested, service, pc, irq>>

cpu_sti ==
    /\ pc = "boot" /\ installed = Len(Lines)
    /\ pc' = "run"
    /\ UNCHANGED <<masked, requested, service, handlers, installed, irq>>
----------------------------------------------------------------------------
\* A device raises its line.
Raise(line) ==
    /\ requested' = requested \cup {line}
    /\ UNCHANGED <<masked, service, handlers, installed, pc, irq>>

\* The slave's request reaches the processor through the master's line 2.
Open(line) == line \notin masked /\ (line >= 8 => Cascade \notin masked)
Path(line) == IF line >= 8 THEN {line, Cascade} ELSE {line}
Priority(line) == IF line >= 8 THEN 16 * Cascade + line ELSE 16 * line

Deliver(line) ==
    /\ pc = "run"
    /\ line \in requested /\ Open(line)
    /\ service = {}
    /\ \A l \in requested : Open(l) => Priority(line) <= Priority(l)
    /\ requested' = requested \ {line}
    /\ service' = Path(line)
    /\ pc' = "handler" /\ irq' = line
    /\ UNCHANGED <<masked, handlers, installed>>

\* isr_dispatch calls the handler, if there is one, then acknowledges.
Handler ==
    /\ pc = "handler"
    /\ pc' = "ack"
    /\ UNCHANGED <<masked, requested, service, handlers, installed, irq>>

irq_ack ==
    /\ pc = "ack"
    /\ service' = service \ Path(irq)
    /\ pc' = "run"
    /\ UNCHANGED <<masked, requested, handlers, installed, irq>>

isr_dispatch == Handler \/ irq_ack

Next ==
    \/ irq_install \/ cpu_sti \/ isr_dispatch
    \/ \E line \in Devices : Raise(line) \/ Deliver(line)

\* The boot sequence and handlers run on, and a request that can be
\* delivered again and again is: no line is starved by another.
Spec ==
    /\ Init /\ [][Next]_vars
    /\ WF_vars(irq_install \/ cpu_sti \/ isr_dispatch)
    /\ \A line \in Devices : SF_vars(Deliver(line))
----------------------------------------------------------------------------
(***************************************************************************)
(* "PS/2 mouse ready (IRQ12)" (mouse.c:107), after irq_install has opened  *)
(* the line under the comment "Unmask" (idt.c:66): a request of any device *)
(* that installed a handler is delivered in the end.                       *)
(***************************************************************************)
RequestsServed == \A line \in Devices : line \in requested ~> line \notin requested
=============================================================================
