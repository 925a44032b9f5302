-------------------------- MODULE MC_RequestHandler --------------------------
EXTENDS RequestHandler, TLC

CONSTANTS q1, q2, q3, t1, t2

MCRequests3 == {q1, q2, q3}
MCRequests2 == {q1, q2}
MCRequests1 == {q1}
MCTaskIDs2 == {t1, t2}
MCTaskIDs1 == {t1}

\* Executors that write one event and return, or fail without writing.
SingleEventScripts == {<<"message">>, <<"status">>, <<"fail">>}
\* Executors as above, or one that writes nothing and returns nil.
AnyShortScripts == SingleEventScripts \cup {<<>>}
\* An executor that writes its result and then fails.
FailAfterWriteScripts == {<<"message">>, <<"message", "fail">>}
\* An executor that reports progress before its result.
\* An executor that writes one Message.
MessageOnlyScripts == {<<"message">>}
ProgressScripts == {<<"status", "message">>}

=============================================================================
