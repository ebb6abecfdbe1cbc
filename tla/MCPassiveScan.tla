---------------------------- MODULE MCPassiveScan ----------------------------
(* Values of PassiveScan's constants for TLC. *)
EXTENDS PassiveScan

(* A fact of each way to come to be known; of the titles a scanner treats alike, one. *)
MCFacts == {
    <<"tls", "expired">>, <<"hsts", "missing">>, <<"hsts", "short">>, <<"missing", "csp">>,
    <<"cookie", "secure">>, <<"file", "/security.txt">>, <<"zap", "x">>}

(* Nothing, a public file, or the whole origin. *)
MCDenials == {{}, {"/robots.txt"}, {"probe", "head", "page"} \cup PublicFiles}

(* One title three times: twice at one address, rated differently; the last with a code that
   ZAP does not define, so that its riskdesc rates it. *)
MCAlerts == <<
    [alert |-> "x", riskcode |-> 2, riskdesc |-> {"MEDIUM"}, confidence |-> "LOW", uri |-> "/a"],
    [alert |-> "x", riskcode |-> 1, riskdesc |-> {"LOW"}, confidence |-> "MEDIUM", uri |-> "/a"],
    [alert |-> "x", riskcode |-> 4, riskdesc |-> {"HIGH", "LOW"}, confidence |-> "CONFIRMED",
     uri |-> NoAddress]>>
=============================================================================
