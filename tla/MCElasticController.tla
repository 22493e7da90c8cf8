------------------------ MODULE MCElasticController ------------------------
(* The controller for TLC under ControllerConfig::standard(): Unit is a     *)
(* multiple of every denominator that six observations can produce.         *)
EXTENDS ElasticController

MCUnit == 4000000
MCHigh == (MCUnit * 17) \div 20
MCLow  == (MCUnit * 14) \div 20

(* Below, at and between the watermarks, above, overflowing; no capacity.   *)
MCLoads == {<<0, 20>>, <<14, 20>>, <<17, 20>>, <<19, 20>>, <<21, 20>>,
            <<1, 0>>, <<9, 10>>}

=============================================================================
