SPECIFICATION FairSpec
CONSTANTS
  MaxSales = 2
  MaxKeys = 4
  MaxKills = 1
INVARIANT AwardedOnce
INVARIANT DoneSaleIsKept
INVARIANT OnlyPaidSalesSettle
PROPERTY DoneSaleIsSettled
CHECK_DEADLOCK FALSE
