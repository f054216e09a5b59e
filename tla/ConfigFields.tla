---------------------------- MODULE ConfigFields ----------------------------
(***************************************************************************)
(* What internal/config/config.go knows about a configuration, and what    *)
(* the handlers of internal/webapi/server.go check of it before they write *)
(* it: the fields with a rule or a default, the defaults, the expansion of *)
(* ${VAR} and the validation at load.                                      *)
(*                                                                         *)
(* A value is told apart as far as these rules do: "zero" (false, 0 or the *)
(* empty string), "good", "bad" (outside the field's range), "var" (a      *)
(* reference to an environment variable), and the three receiver types.    *)
(***************************************************************************)
EXTENDS Sequences

CONSTANT Env    \* the value of the environment variables, "zero" when not set

Value == {"zero", "good", "bad", "var", "dummy", "serialpps", "network"}

\* References within a variable's value are replaced too.
ASSUME EnvAssumption == Env \in Value \ {"var"}

-----------------------------------------------------------------------------
(* The handlers that edit a section: the fields in the order in which they *)
(* are looked at, and the values that end the request with status 400.     *)

NTPSection ==
    [fields |-> <<"ntp.enabled", "ntp.port", "ntp.stratum", "ntp.ref_id",
                  "ntp.poll_interval">>,
     refused |-> ({"ntp.port", "ntp.stratum"} \X {"zero", "bad"})
                   \cup ({"ntp.ref_id", "ntp.poll_interval"} \X {"bad"})]

NTSSection ==
    [fields |-> <<"nts.enabled", "nts.ke_port", "nts.cert_path", "nts.key_path",
                  "nts.min_tls_version">>,
     refused |-> {}]

PTPSection ==
    [fields |-> <<"ptp.enabled", "ptp.interface", "ptp.domain", "ptp.priority1",
                  "ptp.priority2", "ptp.clock_class", "ptp.transport_mode",
                  "ptp.delay_mechanism", "ptp.profile", "ptp.two_step_flag",
                  "ptp.log_announce_interval", "ptp.log_sync_interval">>,
     refused |-> {<<"ptp.domain", "bad">>}]

UncheckedGPSDOSection ==
    [fields |-> <<"gpsdo.enabled", "gpsdo.type", "gpsdo.serial_device",
                  "gpsdo.serial_baud", "gpsdo.pps_device", "gpsdo.network_address">>,
     refused |-> {}]

GPSDOSection ==
    [fields |-> <<"gpsdo.enabled", "gpsdo.type", "gpsdo.serial_device",
                  "gpsdo.serial_baud", "gpsdo.pps_device", "gpsdo.network_address">>,
     refused |-> {<<"gpsdo.type", "zero">>, <<"gpsdo.type", "bad">>}]

Sections == {NTPSection, NTSSection, PTPSection, GPSDOSection}

\* The rest of the file has rules too, though no handler edits it.
WebFields == {"web.port", "web.tls_enabled", "web.tls_cert", "web.tls_key",
              "web.jwt_secret", "web.users"}

Field == WebFields \cup UNION {{s.fields[i] : i \in DOMAIN s.fields} : s \in Sections}

Config == [Field -> Value]

\* What a request that decodes can set a field to, given the field's type.
Flags == {"ntp.enabled", "nts.enabled", "ptp.enabled", "ptp.two_step_flag", "gpsdo.enabled"}

Numbers == {"ntp.port", "ntp.stratum", "ntp.poll_interval", "nts.ke_port", "ptp.domain",
            "ptp.priority1", "ptp.priority2", "ptp.clock_class", "ptp.log_announce_interval",
            "ptp.log_sync_interval", "gpsdo.serial_baud"}

Settable(f) ==
    IF f \in Flags THEN {"zero", "good"}
    ELSE IF f \in Numbers THEN {"zero", "good", "bad"}
    ELSE IF f = "gpsdo.type" THEN {"zero", "bad", "dummy", "serialpps", "network"}
    ELSE {"zero", "good", "bad", "var"}

-----------------------------------------------------------------------------
(* Load *)

\* expandEnvBraces: references are replaced by their values.
Expanded(cfg) == [f \in Field |-> IF cfg[f] = "var" THEN Env ELSE cfg[f]]

\* Fields that stay as they are when they are zero.
NoDefault == {"ntp.enabled", "nts.enabled", "nts.cert_path", "nts.key_path",
              "ptp.enabled", "ptp.interface", "ptp.domain", "ptp.two_step_flag",
              "ptp.log_announce_interval", "ptp.log_sync_interval",
              "gpsdo.enabled", "gpsdo.serial_device", "gpsdo.pps_device",
              "gpsdo.network_address", "web.tls_enabled", "web.tls_cert",
              "web.tls_key", "web.jwt_secret", "web.users"}

DefaultOf(f) == IF f = "gpsdo.type" THEN "dummy" ELSE "good"

\* applyDefaults
WithDefaults(cfg) ==
    [f \in Field |-> IF cfg[f] = "zero" /\ f \notin NoDefault
                       THEN DefaultOf(f) ELSE cfg[f]]

\* Validate: the rules about one field, in a section that is enabled ...
InRange(cfg) ==
    /\ cfg["ntp.enabled"] = "good" =>
         cfg["ntp.port"] = "good" /\ cfg["ntp.stratum"] = "good"
    /\ cfg["ptp.enabled"] = "good" => cfg["ptp.domain"] # "bad"
    /\ cfg["gpsdo.enabled"] = "good" =>
         cfg["gpsdo.type"] \in {"dummy", "serialpps", "network"}
    /\ cfg["web.port"] = "good"

\* The same rules for all sections, enabled or not.
InRangeThroughout(cfg) ==
    /\ cfg["ntp.port"] = "good" /\ cfg["ntp.stratum"] = "good"
    /\ cfg["ptp.domain"] # "bad"
    /\ cfg["gpsdo.type"] \in {"dummy", "serialpps", "network"}
    /\ cfg["web.port"] = "good"

\* ... and those that an enabled feature has of the fields it depends on.
Needed(cfg) ==
    /\ cfg["nts.enabled"] = "good" =>
         cfg["nts.cert_path"] # "zero" /\ cfg["nts.key_path"] # "zero"
    /\ cfg["ptp.enabled"] = "good" => cfg["ptp.interface"] # "zero"
    /\ cfg["gpsdo.enabled"] = "good" =>
         CASE cfg["gpsdo.type"] = "serialpps" ->
                cfg["gpsdo.serial_device"] # "zero" /\ cfg["gpsdo.pps_device"] # "zero"
           [] cfg["gpsdo.type"] = "network" -> cfg["gpsdo.network_address"] # "zero"
           [] OTHER -> TRUE
    /\ cfg["web.tls_enabled"] = "good" =>
         cfg["web.tls_cert"] # "zero" /\ cfg["web.tls_key"] # "zero"
    /\ cfg["web.users"] = "good" => cfg["web.jwt_secret"] # "zero"

Valid(cfg) == InRange(cfg) /\ Needed(cfg)

\* Load of the file's fields: what memory holds afterwards, if it is valid.
Loaded(cfg) == WithDefaults(Expanded(cfg))
=============================================================================
