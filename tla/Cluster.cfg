SPECIFICATION Spec
CONSTANTS a = a
          b = b
          c = c
          d1 = d1
          u1 = u1
          Omitted = Omitted
          Nothing = Nothing
          Node = {a, b, c}
          Domain = {d1}
          Account = {u1}
          Allowed <- SendsFor
          Address = {"r"}
          Peers <- ThirdCalls
          Leaders <- AnyLeaders
          Start <- StartEmpty
          Writers = {a, b}
          Ops = {"domain", "reassign"}
          MaxEdits = 3
          MaxFaults = 1
CHECK_DEADLOCK FALSE
INVARIANTS ImportSettles OnlyPrimariesSpread
