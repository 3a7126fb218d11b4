\* The address fetch_url connects to, against what the module promises.
CONSTANTS
  Urls <- MCUrls
  AllowedSchemes = {"https"}
  NoHost = NoHost
  Unencodable = Unencodable
  PublicIps = {public}
  OtherIps = {private}
  NoIp = NoIp
  MaxAddresses = 2
  Statuses = {200, 302, 404}
  ToClose = ToClose
  MaxBytes = 2
  MaxBody = 4
  Timeout = 2
SPECIFICATION Spec
INVARIANT ConnectsToPublic
\* fetch_url returns or raises, and the run ends there.
CHECK_DEADLOCK FALSE
