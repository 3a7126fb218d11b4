\* max_bytes 2 and bodies of up to 4 bytes: below, at and above the limit.
CONSTANTS
  Urls <- MCUrls
  AllowedSchemes = {"https"}
  NoHost = NoHost
  Unencodable = Unencodable
  PublicIps = {public}
  OtherIps = {private}
  NoIp = NoIp
  MaxAddresses = 2
  Statuses = {200, 302, 404}
  ToClose = ToClose
  MaxBytes = 2
  MaxBody = 4
  Timeout = 2
SPECIFICATION FairSpec
INVARIANTS TypeOK SizeLimit OkIsComplete
PROPERTIES EveryFetchEnds
\* fetch_url returns or raises, and the run ends there.
CHECK_DEADLOCK FALSE
