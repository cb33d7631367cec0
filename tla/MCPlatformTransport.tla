------------------------ MODULE MCPlatformTransport ------------------------
(* An instance of PlatformTransport: buses of up to two devices.            *)
EXTENDS PlatformTransport

Good == [id |-> "0403:6001", serial |-> "A", keyword |-> FALSE, endpoints |-> TRUE,
         opens |-> TRUE, claims |-> TRUE, boots |-> TRUE]

MCKinds == {
  Good,
  [Good EXCEPT !.serial = "B", !.boots = FALSE],
  [Good EXCEPT !.opens = FALSE],
  [Good EXCEPT !.id = "0584:b020", !.claims = FALSE],
  [Good EXCEPT !.id = "0584:b020", !.endpoints = FALSE, !.keyword = TRUE],
  [Good EXCEPT !.id = "1234:0001", !.keyword = TRUE] }

MCSelectors == {
  [kind |-> "empty", id |-> "0403:6001", serial |-> "", mini |-> FALSE],
  [kind |-> "node", id |-> "0403:6001", serial |-> "", mini |-> FALSE],
  [kind |-> "name", id |-> "0584:6001", serial |-> "", mini |-> FALSE],
  [kind |-> "device", id |-> "0403:6001", serial |-> "A", mini |-> TRUE],
  [kind |-> "device", id |-> "0403:6001", serial |-> "B", mini |-> FALSE] }

MCKnownIds == <<"0403:6001", "0584:b020">>
MCMiniIds == {"0403:6001"}

============================================================================
