----------------------------- MODULE MCConnectivity -----------------------------
(* The LEDs of the thingy9151lite board (led_state_def.h).                  *)
EXTENDS Connectivity

MCLeds == {1, 2, 3, 4}
MCLedsOf(led) ==
  CASE led = "LTE_CONNECTING" -> {1}
    [] led = "LOCATION_SEARCHING" -> {2}
    [] led \in {"CLOUD_CONNECTING", "CLOUD_PUBLISHING", "CLOUD_ASSOCIATING", "CLOUD_ASSOCIATED"} -> {3}
    [] led = "ACTIVE_MODE" -> {4}
    [] led = "PASSIVE_MODE" -> {3, 4}
    [] led \in {"FOTA_UPDATING", "FOTA_UPDATE_REBOOT"} -> {1, 2}
    [] led = "ERROR_SYSTEM_FAULT" -> MCLeds
    [] OTHER -> {}

MCOutside ==
  {Plain(t) : t \in {"CLOUD_CONNECTING", "CLOUD_CONNECTED", "DATA_SEND", "USER_ASSOCIATION_REQUEST",
                     "USER_ASSOCIATED", "FOTA_START", "FOTA_ENDED", "LOCATION_ACTIVE",
                     "LOCATION_INACTIVE", "CLOUD_LTE_CONNECT", "CLOUD_LTE_DISCONNECT"}}
  \cup {Ev("CONFIG", "PASSIVE"), Ev("DATA_GET", {"MODEM_STATIC", "MODEM_DYNAMIC"}),
        Ev("SHUTDOWN_REQUEST", "FOTA_UPDATE")}
=============================================================================
