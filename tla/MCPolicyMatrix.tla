--------------------------- MODULE MCPolicyMatrix ---------------------------
(* A finite instance of PolicyMatrix for TLC: an observation for each fact *)
(* and two severities around the thresholds.                             *)
EXTENDS PolicyMatrix

MCObservations ==
    {[kind |-> o[1], observation |-> o[2]] : o \in
        {<<"package_age", "not_found">>, <<"vulnerability", "malicious">>,
         <<"vulnerability", "critical">>, <<"vulnerability", "moderate">>,
         <<"name_confusion", "confusion_detected">>, <<"package_age", "fresh">>,
         <<"provenance", "changed">>, <<"install_script", "script_added">>,
         <<"install_script", "present">>, <<"install_script", "indicator">>,
         <<"provenance", "unavailable">>, <<"cache", "fresh_allow">>,
         <<"reputation", "low_popularity">>}}
=============================================================================
