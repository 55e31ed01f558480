----------------------------- MODULE MCStartup -----------------------------
(* Startup on the configurations that differ from the template in one      *)
(* setting, or in the switch and the two files of the metrics server.      *)
EXTENDS Startup

OneOff == {[Template EXCEPT ![k] = t] : k \in Keys, t \in Texts}
LogOn == [Template EXCEPT !["log.topic.enabled"] = "true"]
ServerTls ==
    {[LogOn EXCEPT !["metrics.ssl.enabled"] = "true",
                   !["metrics.ssl.cert"] = c,
                   !["metrics.ssl.key"] = k] :
        c \in {"absent", "empty", "word"}, k \in {"absent", "empty", "word"}}

MCConfigurations == OneOff \cup {LogOn} \cup ServerTls
=============================================================================
