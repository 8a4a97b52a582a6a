--------------------------- MODULE MCI2cDiscovery ---------------------------
(* The bus driver, an LCD and an RTC, on a bus of three addresses.          *)
EXTENDS I2cDiscovery

MCLevel   == [d \in Drivers |-> IF d = 0 THEN 1 ELSE 2]
MCAddress == [d \in Drivers |-> CASE d = 0 -> 255 [] d = 1 -> 1 [] OTHER -> 2]
=============================================================================
