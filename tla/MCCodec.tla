------------------------------ MODULE MCCodec ------------------------------
(***************************************************************************)
(* The jobs of Codec for TLC.                                              *)
(***************************************************************************)
EXTENDS Codec

Addresses == {<<1, 35, 69, 103, 137, 171>>, <<255, 0, 16, 159, 160, 9>>}

(* Printed addresses, as they are or in upper case, with one character     *)
(* replaced, shortened or with one more.                                   *)
Characters == {47, 48, 57, 58, 64, 65, 70, 71, 96, 97, 102, 103}
Upper(t)   == [i \in DOMAIN t |-> IF t[i] \in 97 .. 102 THEN t[i] - 32 ELSE t[i]]
Printed    == {PrintAddress(a) : a \in Addresses}
Texts ==
  Printed \cup {Upper(t) : t \in Printed}
  \cup {[t EXCEPT ![i] = c] : t \in Printed, i \in 1 .. 17, c \in Characters}
  \cup {SubSeq(t, 1, n) : t \in Printed, n \in 0 .. 16}
  \cup {t \o more : t \in Printed, more \in {<<Colon>>, <<48>>, <<Colon, 48>>}}

AddressJobs == [kind : {"address"}, text : Texts, behind : {<<>>, <<48, 58>>}]

Elements ==
  {<<1, 6>>, <<1, 6, 1>>, <<2, 6159>>, <<2, 6159, 43690>>, <<8>>, <<9, 84, 97, 103>>,
   <<10, 4>>, <<10, -20>>, <<18, 80, 800>>, <<255, 13, 7, 7>>, <<3, 1, 1>>}
(* Behind the data: what the buffer held before, or the next event.        *)
ReportJobs ==
  [kind : {"report"}, vendor : Vendors, type : {0, 4}, address : {<<1, 35, 69, 103, 137, 171>>},
   rssi : {-56, 5}, elements : UNION {[1 .. n -> Elements] : n \in 0 .. 2}, padding : 0 .. 2,
   behind : {<<0, 0, 0, 0>>, <<4, 255, 3, 1>>, <<2, 1, 6, 1>>}]

(* Data from the air: any few bytes, and as many as there can be.          *)
Full == [i \in 1 .. 255 |-> CASE i = 1 -> 253 [] i = 255 -> 255 [] OTHER -> 3]
AirJobs ==
  [kind : {"air"}, data : UNION {[1 .. n -> {0, 1, 2, 3, 5, 9, 10, 18, 255}] : n \in 0 .. 3} \cup {Full},
   behind : {[i \in 1 .. 256 |-> 9], [i \in 1 .. 256 |-> 255]}]

Uuid(n) == [i \in 1 .. n |-> i + 9]
Entries(n) == [first : {1, 300}, last : {11, 65535}, uuid : {Uuid(n)}]
ServiceJobs ==
  UNION {[kind : {"services"}, vendor : Vendors, link : {0, 513}, uuidLength : {n},
          entries : UNION {[1 .. m -> Entries(n)] : m \in 0 .. 2}, behind : {<<>>}] : n \in {2, 16}}

BarometerJobs ==
  [kind : {"barometer"}, values : {-1, 0, 255, 2615, 65536} \X {0, 256, 101325}, missing : {0, 1},
   behind : {<<9, 9>>}]
Axes == {<<0, 1, -1, 127, 128, -32768, 32767, 255, -256>>, [i \in 1 .. 9 |-> i - 5]}
ImuJobs == [kind : {"imu"}, values : Axes, missing : {0, 2}, behind : {<<9, 9>>}]

OpenJobs  == [kind : {"open"}, vendor : Vendors, address : Addresses, behind : {<<>>}]
WriteJobs == [kind : {"write"}, vendor : Vendors, link : {0, 513}, handle : {52, 300},
              value : {[i \in 1 .. n |-> i] : n \in {0, 1, 2, 20, 55, 56, 57, 255}}, behind : {<<>>}]

AllJobs == AddressJobs \cup ReportJobs \cup AirJobs \cup ServiceJobs \cup BarometerJobs \cup ImuJobs
           \cup OpenJobs \cup WriteJobs
=============================================================================
