------------------------------- MODULE Config -------------------------------
(***************************************************************************)
(* config.ini as load_config reads and validates it (config.py) and as     *)
(* main.run casts it afterwards.  The two are far apart and state the type *)
(* of every setting twice.                                                 *)
(*                                                                         *)
(* A configuration gives every setting the class its text falls into:      *)
(*   "absent"    the key is not there       "empty"  it has no value       *)
(*   "whole"     a whole number in range    "fraction"  one with a point   *)
(*   "low", "high"  a whole number outside the range                       *)
(*   "true", "false"  in any mixture of cases                              *)
(*   "good"      a text of the required form                               *)
(*   "word"      any other text                                            *)
(***************************************************************************)

\* The settings without which the canary cannot connect.
Required ==
    {"bootstrap.servers", "security.protocol", "sasl.mechanisms",
     "sasl.username", "sasl.password", "url", "basic.auth.user.info", "topic"}

\* The required ones whose form is checked; a wrong security protocol or
\* mechanism only earns a warning.
Formatted == {"bootstrap.servers", "url", "basic.auth.user.info"}

Seconds ==
    {"consumer.timeout.seconds", "check.interval.seconds",
     "partition.sync.interval.seconds", "sr.check.interval.seconds"}
Counts ==
    {"warmup.checks", "max.workers", "metrics.port",
     "metrics.partition.threshold", "log.topic.retention.ms"}
Numeric == Seconds \cup Counts

Switches == {"log.topic.enabled", "metrics.ssl.enabled"}
ServerCertificate == {"metrics.ssl.cert", "metrics.ssl.key"}
ClientCertificate == {"ssl.certificate.location", "ssl.key.location"}

Keys == Required \cup Numeric \cup Switches \cup ServerCertificate
        \cup ClientCertificate
        \cup {"ssl.ca.location", "enable.ssl.certificate.verification"}

Texts == {"absent", "empty", "whole", "fraction", "low", "high", "true",
          "false", "good", "word"}

\* What the template of the repository comes to once filled in.
Template ==
    [k \in Keys |->
        CASE k \in Required -> "good"
          [] k \in Numeric  -> "whole"
          [] k \in Switches -> "false"
          [] k = "enable.ssl.certificate.verification" -> "true"
          [] OTHER          -> "absent"]

\* float(text) and int(text) succeed.
Casts(type, text) ==
    \/ text \in {"whole", "low", "high"}
    \/ type = "float" /\ text = "fraction"

Given(conf, k) == conf[k] \notin {"absent", "empty"}
Enabled(conf, k) == conf[k] = "true"

(***************************************************************************)
(* validate_config, by the groups of its checks                            *)
(***************************************************************************)
RequiredPresent(conf) ==
    /\ \A k \in Required : Given(conf, k)
    /\ \A k \in Formatted : conf[k] = "good"

TransportSound(conf) ==
    /\ conf["ssl.ca.location"] # "empty"
    /\ conf["enable.ssl.certificate.verification"]
           \in {"absent", "true", "false"}
    /\ (\E k \in ClientCertificate : conf[k] # "absent")
           => \A k \in ClientCertificate : Given(conf, k)

\* Seeded fault: every number is read as a float, as the intervals are.
ValidatedAs_float(k) == "float"

\* 'seconds' in key decides between float() and int().
ValidatedAs(k) == IF k \in Seconds THEN "float" ELSE "int"

NumbersInRange(conf) ==
    \A k \in Numeric :
        conf[k] # "absent" => /\ Casts(ValidatedAs(k), conf[k])
                              /\ conf[k] \notin {"low", "high"}

SwitchesSound(conf) ==
    /\ \A k \in Switches : conf[k] \in {"absent", "true", "false"}
    /\ Enabled(conf, "metrics.ssl.enabled")
           => \A k \in ServerCertificate : Given(conf, k)

Valid(conf) ==
    /\ RequiredPresent(conf)
    /\ TransportSound(conf)
    /\ NumbersInRange(conf)
    /\ SwitchesSound(conf)

(***************************************************************************)
(* The casts at the head of main.run; an absent key takes a default, whose *)
(* text is a whole number.                                                 *)
(***************************************************************************)
CastAs(k) ==
    IF k \in {"warmup.checks", "max.workers", "metrics.port",
              "metrics.partition.threshold", "log.topic.retention.ms"}
    THEN "int"
    ELSE "float"

CastsSucceed(conf) ==
    \A k \in Numeric : conf[k] # "absent" => Casts(CastAs(k), conf[k])

=============================================================================
