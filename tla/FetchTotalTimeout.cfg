\* How long fetch_url takes, against "Total request timeout".
CONSTANTS
  Urls <- MCUrls
  AllowedSchemes = {"https"}
  NoHost = NoHost
  Unencodable = Unencodable
  PublicIps = {public}
  OtherIps = {private}
  NoIp = NoIp
  MaxAddresses = 2
  Statuses = {200, 302, 404}
  ToClose = ToClose
  MaxBytes = 2
  MaxBody = 4
  Timeout = 2
SPECIFICATION Spec
INVARIANT TotalTimeout
\* fetch_url returns or raises, and the run ends there.
CHECK_DEADLOCK FALSE
