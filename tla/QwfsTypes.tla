------------------------------ MODULE QwfsTypes ------------------------------
(***************************************************************************)
(* The status codes the native library keeps for a connection and for a    *)
(* request (include/qwfs_types.h), the phases of a connection              *)
(* (qwfs_connection.h) and the conversions between error codes             *)
(* (qwfs_connection.cpp).  A status is named, not numbered; the sets below *)
(* stand for the comparisons the code makes on the numbers.                *)
(***************************************************************************)
EXTENDS Integers

(* status <= QwfsStatus::CriticalError: the codes -100 and -101.           *)
CriticalStatus == {"CriticalError", "CriticalErrorQuiche"}

(* CriticalError < status < Wait: the codes -1 .. -12 and -30.             *)
OrdinaryErrorStatus ==
  {"Error", "ErrorSocket", "ErrorResolveHost", "ErrorTimeout",
   "ErrorConnectionClose", "ErrorInvalidServer", "ErrorInvalidResponse",
   "ErrorTlsInvalidCert", "ErrorTls", "ErrorNetwork", "ErrorVersionFallback",
   "ErrorConnectionMigration", "ErrorFileIO"}

ErrorStatus == CriticalStatus \cup OrdinaryErrorStatus

NormalStatus == {"Wait", "Connecting", "Completed", "Aborting"}

QwfsStatus == ErrorStatus \cup NormalStatus

Phases ==
  {"CreateSocket", "Initialize", "Handshake", "Wait", "StartShutdown",
   "WaitShutdown", "ConnectionMigration"}

(* Phase::Handshake <= phase and Phase::Wait <= phase, in the order of the *)
(* enumeration.                                                            *)
FromWait ==
  {"Wait", "StartShutdown", "WaitShutdown", "ConnectionMigration"}
FromHandshake == {"Handshake"} \cup FromWait

(* Connection::ConvertStatusToResult.  Aborting has no case of its own and *)
(* falls into the default, a critical error.                               *)
ConvertStatusToResult(s) ==
  CASE s \in {"Wait", "Connecting", "Completed"} -> "Ok"
    [] s \in {"Error", "ErrorSocket", "ErrorResolveHost", "ErrorTimeout",
              "ErrorConnectionClose", "ErrorInvalidResponse",
              "ErrorNetwork"} -> "Error"
    [] s = "ErrorFileIO" -> "ErrorFileIO"
    [] OTHER -> "CriticalError"

(* The classes of quiche errors that Connection::ConvertQuicheErrorToStatus *)
(* tells apart, each named after one of its codes, with the status it gives. *)
QuicheErrors ==
  {"FLOW_CONTROL", "STREAM_RESET", "STREAM_LIMIT", "TLS_FAIL", "CRYPTO_FAIL",
   "INVALID_PACKET", "STREAM_STOPPED"}

ConvertQuicheErrorToStatus(error, now) ==
  CASE error = "FLOW_CONTROL"   -> now
    [] error = "STREAM_RESET"   -> "Error"
    [] error = "STREAM_LIMIT"   -> "CriticalError"
    [] error = "TLS_FAIL"       -> "ErrorTlsInvalidCert"
    [] error = "CRYPTO_FAIL"    -> "ErrorTls"
    [] error = "INVALID_PACKET" -> "ErrorInvalidServer"
    [] OTHER                    -> "CriticalErrorQuiche"

(* Stream::ConvertQuicheH3ErrorToStatus, for the errors of reading a body: *)
(* the classes that leave the status, ask for a retry, blame the server or *)
(* are fatal.                                                              *)
H3Errors == {"DONE", "REQUEST_CANCELLED", "MISSING_SETTINGS", "INTERNAL_ERROR"}

ConvertQuicheH3ErrorToStatus(error, now) ==
  CASE error = "DONE"              -> now
    [] error = "REQUEST_CANCELLED" -> "Error"
    [] error = "MISSING_SETTINGS"  -> "ErrorInvalidResponse"
    [] OTHER                       -> "CriticalErrorQuiche"

(* Why quiche_h3_send_request cannot open a stream, and what it returns by *)
(* the quiche.h the library is built with: the peer's stream limit is      *)
(* reached, the connection has no capacity, any other failure.             *)
SendRequestErrors == {"STREAM_LIMIT", "STREAM_BLOCKED", "OTHER"}

SendRequestCode(error) ==
  CASE error = "STREAM_LIMIT"   -> -1012
    [] error = "STREAM_BLOCKED" -> -13
    [] OTHER                    -> -3

(* The code StartStream waits on: "-12 is returned when the limit on       *)
(* creating streams is exceeded".                                          *)
CreateLimitCode == -12
=============================================================================
