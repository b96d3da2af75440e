------------------------------ MODULE Mailbox ------------------------------
(***************************************************************************)
(* What the steering queue of a session promises the subagent runs whose   *)
(* completions are posted to it: a message leaves the mailbox only by      *)
(* being handed to a model call, unless an interruption (the stop of the   *)
(* turn that was taking it, a crash) cuts it off.  A message that was      *)
(* handed over, or cut off, may be forgotten, or posted once more: the     *)
(* promise is at-least-once.                                               *)
(***************************************************************************)
CONSTANT Runs
VARIABLES held,     \* the messages the mailbox owes
          shown,    \* those handed to a model call, ever
          cut       \* those an interruption cut off, ever
mail_vars == <<held, shown, cut>>

MailInit == held \in SUBSET Runs /\ shown = {} /\ cut = {}

\* Nothing is dropped silently.
Accounted == held \ held' \subseteq shown' \cup cut'

Post      == Accounted /\ held' \in SUBSET Runs /\ UNCHANGED <<shown, cut>>
Hand      == \E S \in SUBSET held : Accounted /\ shown' = shown \cup S /\ UNCHANGED cut
Interrupt == \E S \in SUBSET held : Accounted /\ cut' = cut \cup S /\ UNCHANGED shown

MailNext == Post \/ Hand \/ Interrupt
MailSpec == MailInit /\ [][MailNext]_mail_vars
=============================================================================
