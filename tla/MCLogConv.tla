------------------------------- MODULE MCLogConv -------------------------------
(***************************************************************************)
(* LogConv for TLC: an address of each kind that is treated in its own     *)
(* way, a ring of two or three slots in an array of four.                  *)
(***************************************************************************)
EXTENDS LogConv

MCTokens == {"195.226.187.50", "2002:50b5:7940::50b5:7940", "2001:db8::210:a4ff:fe01:2345",
             "fe80::fcfc:acff:fe10:fe01", "::1", "localhost"}

MCKind == [ t \in MCTokens |-> CASE t = "195.226.187.50" -> "ipv4"
                                 [] t = "localhost" -> "other"
                                 [] OTHER -> "ipv6" ]

MCTypeinfo ==
  [ t \in MCTokens |->
      CASE t = "2002:50b5:7940::50b5:7940" -> {"6to4", "global-unicast", "6to4-microsoft"}
        [] t = "2001:db8::210:a4ff:fe01:2345" -> {"productive", "global-unicast"}
        [] t = "fe80::fcfc:acff:fe10:fe01" -> {"link-local"}
        [] OTHER -> {} ]

MCUniversal ==
  [ t \in MCTokens |-> t \in {"2001:db8::210:a4ff:fe01:2345", "fe80::fcfc:acff:fe10:fe01"} ]

MCRegistry ==
  [ t \in MCTokens |-> IF t = "2001:db8::210:a4ff:fe01:2345" THEN "reserved" ELSE "RIPENCC" ]

MCVendor ==
  [ t \in MCTokens |-> IF t = "2001:db8::210:a4ff:fe01:2345" THEN "XircomInc"
                       ELSE IF t = "fe80::fcfc:acff:fe10:fe01" THEN "" ELSE NoVendor ]

MCVendorCut == "XircomInc" :> "XircomI"

================================================================================
