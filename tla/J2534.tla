------------------------------- MODULE J2534 -------------------------------
(***************************************************************************)
(* The vocabulary of the PassThru interface: the status codes of           *)
(* include/mvci/j2534.hpp, the argument classes a call tells apart, and    *)
(* the associative containers the implementation keeps its tables in.      *)
(***************************************************************************)
EXTENDS Naturals

STATUS_NOERROR          == "STATUS_NOERROR"
ERR_FAILED              == "ERR_FAILED"
ERR_NOT_INITIALIZED     == "ERR_NOT_INITIALIZED"
ERR_INVALID_DEVICE_ID   == "ERR_INVALID_DEVICE_ID"
ERR_INVALID_CHANNEL_ID  == "ERR_INVALID_CHANNEL_ID"
ERR_INVALID_MSG         == "ERR_INVALID_MSG"
ERR_TIMEOUT             == "ERR_TIMEOUT"
ERR_NOT_SUPPORTED       == "ERR_NOT_SUPPORTED"

\* ERR_BUFFER_EMPTY is declared by the header and returned by nothing.
Statuses == {STATUS_NOERROR, ERR_FAILED, ERR_NOT_INITIALIZED,
             ERR_INVALID_DEVICE_ID, ERR_INVALID_CHANNEL_ID, ERR_INVALID_MSG,
             ERR_TIMEOUT, ERR_NOT_SUPPORTED}

\* What a write or a read may return once it has reached the transport.
TransferStatuses == {STATUS_NOERROR, ERR_FAILED, ERR_NOT_INITIALIZED,
                     ERR_INVALID_MSG, ERR_TIMEOUT}

\* A null output pointer is refused by the registry, a null or malformed
\* message and an unknown filter type only by the driver.
PeriodicArgs == {"valid", "nullOutput", "badMessage"}
FilterArgs   == {"valid", "nullOutput", "badMessage", "badType"}

\* One ioctl request: its id, and whether its argument is null, names the
\* baud rate, or names anything else.
IoctlArgs == [id : {"SET_CONFIG", "GET_CONFIG", "CLEAR_RX_BUFFER",
                    "CLEAR_TX_BUFFER", "READ_BATT_VOLTAGE", "unknown"},
              arg : {"null", "BAUDRATE", "other"}]

IoctlStatus(r) ==
  IF \/ r.id = "unknown"
     \/ r.id \in {"SET_CONFIG", "GET_CONFIG"} /\ r.arg = "other"
  THEN ERR_NOT_SUPPORTED
  ELSE IF r.id \in {"SET_CONFIG", "GET_CONFIG", "READ_BATT_VOLTAGE"}
          /\ r.arg = "null"
       THEN ERR_INVALID_MSG
       ELSE STATUS_NOERROR

----------------------------------------------------------------------------
(* std::unordered_map: a function whose domain is the set of present keys. *)

IsMap(f, K, V) == DOMAIN f \subseteq K /\ f \in [DOMAIN f -> V]

EmptyMap == [k \in {} |-> 0]

\* map[k] = v: the new value wins.
Assign(f, k, v) ==
  [x \in DOMAIN f \cup {k} |-> IF x = k THEN v ELSE f[x]]

\* map.emplace(k, v): a present key keeps its value.
Emplace(f, k, v) ==
  [x \in DOMAIN f \cup {k} |-> IF x \in DOMAIN f THEN f[x] ELSE v]

Erase(f, k) == [x \in DOMAIN f \ {k} |-> f[x]]

============================================================================
