----------------------- MODULE MCPersistentConnection -----------------------
EXTENDS PersistentConnection

\* No listens.
MCNoQueries == <<>>

MCOneQuery == <<<<"metro", "all">>>>

\* One query, listened to again after it was removed or refused.
MCSameQuery == <<<<"metro", "all">>, <<"metro", "all">>>>
=============================================================================
