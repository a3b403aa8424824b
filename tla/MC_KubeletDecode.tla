--------------------------- MODULE MC_KubeletDecode ---------------------------
(* Container names after the tests of kubelet_test.go ("/", "/docker-daemon",*)
(* "k8s_test.testkubelet"), a name parsed to an empty container name and a  *)
(* cgroup name with a "." before index 4.  Nodes after the test nodes.      *)
EXTENDS KubeletDecode, TLC

MCCNames == {"/", "/docker-daemon", "k8s_test.testkubelet", "k8s_.x", "/a.b"}
MCDotIndex == ("/" :> -1) @@ ("/docker-daemon" :> -1)
              @@ ("k8s_test.testkubelet" :> 8) @@ ("k8s_.x" :> 4) @@ ("/a.b" :> 2)
MCSlice4 == ("k8s_test.testkubelet" :> "test") @@ ("k8s_.x" :> "")
MCTrimSlash == [n \in MCCNames |-> IF n = "/" THEN ""
                                   ELSE IF n = "/docker-daemon" THEN "docker-daemon"
                                   ELSE IF n = "/a.b" THEN "a.b" ELSE n]
MCSplitPodName == ("ns/pod" :> <<"ns", "pod">>) @@ ("ns/" :> <<"ns", "">>)
MCCondSpecs == [type : {"Ready", "NotReady"}, status : {"True", "Unknown"}]
MCAddrSpecs == {[type |-> "Hostname", addr |-> a] : a \in {"", "h1", "h2"}}
               \cup {[type |-> "InternalIP", addr |-> a] : a \in {"10.0.0.1", "10.0.0.2", "::1"}}
               \cup {[type |-> "ExternalIP", addr |-> "10.0.0.9"]}
MCIPv4Addrs == {"10.0.0.1", "10.0.0.2", "10.0.0.9"}
=============================================================================
