----------------------------- MODULE MCWebSocket -----------------------------
EXTENDS WebSocket

\* Messages of one segment, and of two segments behind their number.
MCNone == <<>>
MCOne == <<1>>
MCLong == <<2>>
MCLongShort == <<2, 1>>

MCAllFaults == {"error", "end", "refused", "close", "malformed"}
MCWriteFaults == {"error"}
=============================================================================
