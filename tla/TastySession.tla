---------------------------- MODULE TastySession ----------------------------
(* The cached broker session and account of data/tasty_client.py and the     *)
(* lock both getters take, as the bot's one thread calls them.               *)

VARIABLES
  stack,     \* the getters the thread is in: caller>callee, +lock once it holds it
  lock,      \* _session_lock is held
  session,   \* _session is set
  account    \* _account is set

vars == <<stack, lock, session, account>>

Init == stack = "none" /\ lock = FALSE /\ session = FALSE /\ account = FALSE

CallSession == stack = "none" /\ stack' = "session" /\ UNCHANGED <<lock, session, account>>
CallAccount == stack = "none" /\ stack' = "account" /\ UNCHANGED <<lock, session, account>>

\* threading.Lock: a thread that holds it waits for itself.
Acquire(from, to) ==
  /\ stack = from /\ ~lock
  /\ lock' = TRUE /\ stack' = to
  /\ UNCHANGED <<session, account>>

Release(to) == lock' = FALSE /\ stack' = to

\* get_session: the session is created when there is none.
SessionDone ==
  /\ stack = "session+lock" /\ session' = TRUE /\ Release("none")
  /\ UNCHANGED account

\* get_account: without an account it asks for the session first.
NeedsSession ==
  /\ stack = "account+lock" /\ ~account /\ stack' = "account+lock>session"
  /\ UNCHANGED <<lock, session, account>>

NestedDone ==
  /\ stack = "account+lock>session+lock" /\ session' = TRUE /\ account' = TRUE
  /\ Release("none")

AccountDone ==
  /\ stack = "account+lock" /\ account /\ Release("none")
  /\ UNCHANGED <<session, account>>

\* The brokerage refuses: the exception leaves the with block.
Raises ==
  /\ stack \in {"session+lock", "account+lock>session+lock"} /\ Release("none")
  /\ UNCHANGED <<session, account>>

InCall ==
  \/ Acquire("session", "session+lock") \/ SessionDone
  \/ Acquire("account", "account+lock") \/ NeedsSession \/ AccountDone
  \/ Acquire("account+lock>session", "account+lock>session+lock") \/ NestedDone

Next == CallSession \/ CallAccount \/ InCall \/ Raises

\* A call that can go on goes on.
Spec == Init /\ [][Next]_vars /\ WF_vars(InCall)

\* tasty_client.py:92, get_account: "Return the active TastyTrade Account object,
\* creating it if needed": every call returns.
AccountReturns == stack = "account" ~> stack = "none"

=============================================================================
