------------------------------- MODULE MCRetries -------------------------------
EXTENDS Retries

\* The actors of the application, and actors that use the other hooks of the
\* middleware: no limit, a predicate, an exhaustion callback, a declared exception.
Actors == {
    [max_retries |-> 3, min_backoff |-> 15000],
    [max_retries |-> 1, min_backoff |-> 0, max_backoff |-> 0, on_retry_exhausted |-> "callback"],
    [max_retries |-> None, min_backoff |-> 1000],
    [retry_when |-> {0}, on_retry_exhausted |-> "callback", min_backoff |-> 0, max_backoff |-> 0],
    [throws |-> "ValueError", max_retries |-> 2, max_backoff |-> 20000]}

\* What senders add: nothing, an override, or an option set to None.
Senders == {<<>>, [max_retries |-> 0], [throws |-> None]}
=============================================================================
