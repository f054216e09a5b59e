--------------------------- MODULE MCConfigStore ---------------------------
\* A small instance of ConfigStore: requests that are accepted, refused halfway,
\* valid one by one only, and ones that store two parts of the list of peers.
EXTENDS ConfigStore, TLC

MCFirstFile ==
    [f \in Field |->
        CASE f \in {"ntp.enabled", "web.users"} -> "good"
          [] f = "web.jwt_secret" -> "var"
          [] f = "gpsdo.type" -> "dummy"
          [] OTHER -> "zero"]

Section(s, set) == [kind |-> "section", section |-> s, set |-> set]

MCRequests ==
    {Section(NTPSection, "ntp.stratum" :> "good" @@ "ntp.port" :> "good"),
     Section(NTPSection, "ntp.enabled" :> "zero" @@ "ntp.port" :> "bad"),
     Section(NTSSection, "nts.enabled" :> "good"),
     Section(PTPSection, "ptp.interface" :> "good" @@ "ptp.enabled" :> "good"),
     Section(GPSDOSection, "gpsdo.type" :> "network" @@ "gpsdo.enabled" :> "good"),
     Section(GPSDOSection, "gpsdo.type" :> "bad" @@ "gpsdo.enabled" :> "good"),
     [kind |-> "peers", stores |-> 2],
     [kind |-> "reload"]}
=============================================================================
