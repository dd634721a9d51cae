\* Two requests, every source, one failed statement or crash.
SPECIFICATION Spec
CONSTANTS
  Req = {r1, r2}
  WalletStart = 5
  TokenStart = 6
  SubTotal = 4
  TrustQuota = 4
  AllowOverflow = TRUE
  HasSub = TRUE
  Preferences = {"subscription_first", "wallet_first"}
  Estimates = {0, 2}
  Targets = {3}
  Actuals = {1, 4}
  Unlimited = {FALSE}
  RowLocks = {TRUE, FALSE}
  MaxFaults = 1
SYMMETRY Symmetric
INVARIANT ChargedExactly
INVARIANT NeverOverRefunded
INVARIANT SubWithinTotal
