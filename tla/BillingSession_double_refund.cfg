\* A subscription refund and one failed statement.
SPECIFICATION Spec
CONSTANTS
  Req = {r1}
  WalletStart = 5
  TokenStart = 6
  SubTotal = 5
  TrustQuota = 0
  AllowOverflow = TRUE
  HasSub = TRUE
  Preferences = {"subscription_only"}
  Estimates = {2}
  Targets = {3}
  Actuals = {2}
  Unlimited = {FALSE}
  RowLocks = {FALSE}
  MaxFaults = 1
SYMMETRY Symmetric
INVARIANT SubRefundIsIdempotent
