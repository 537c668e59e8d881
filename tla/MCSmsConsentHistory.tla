------------------------ MODULE MCSmsConsentHistory ------------------------
(* Instance of SmsConsentHistory for TLC: a consumer who is a client of    *)
(* two tenants under one number; p2 is the number of no client.            *)
EXTENDS SmsConsentHistory, TLC

CONSTANTS ta, tb, b1, b2, p1, p2

MCTenantOf == (b1 :> ta) @@ (b2 :> tb)
MCPhoneOf == [b \in {b1, b2} |-> p1]

============================================================================
