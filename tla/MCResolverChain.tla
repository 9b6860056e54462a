--------------------------- MODULE MCResolverChain ---------------------------
(* Instances of the settings and the chain of resolvers for TLC. *)
EXTENDS ResolverChain

MCNullable == {"librariesio_api_key", "ecosystems_api_key", "llm_resolver_base_url",
               "llm_resolver_api_key", "llm_resolver_model"}
MCDefaults ==
  [depsdev_enabled |-> TRUE, ecosystems_enabled |-> FALSE, ecosystems_api_key |-> Null,
   librariesio_enabled |-> TRUE, librariesio_api_key |-> Null, apk_resolver_enabled |-> TRUE,
   llm_resolver_enabled |-> FALSE, llm_resolver_base_url |-> "u", llm_resolver_api_key |-> "k",
   llm_resolver_model |-> Null, llm_resolver_attempts_count |-> 2, retry_max_attempts |-> 2,
   job_ttl_hours |-> 1]
MCFields == DOMAIN MCDefaults
MCValues == [f \in MCFields |->
  IF f \in {"job_ttl_hours", "retry_max_attempts", "llm_resolver_attempts_count"} THEN {1, 2, Null}
  ELSE IF f \in MCNullable THEN {"", "k", "l", "u", "m", Null} ELSE {TRUE, FALSE, Null}]

\* A key alone, a key and a retention time, no key, an empty one (so nothing), a retention time,
\* None where it may not be, and other chains.
MCUpdates ==
  {[librariesio_api_key |-> "k"], [librariesio_api_key |-> "l", job_ttl_hours |-> 2],
   [librariesio_api_key |-> Null], [librariesio_api_key |-> ""], [job_ttl_hours |-> 2],
   [retry_max_attempts |-> Null],
   [depsdev_enabled |-> FALSE, apk_resolver_enabled |-> FALSE],
   [llm_resolver_enabled |-> TRUE, llm_resolver_model |-> "m"],
   [ecosystems_enabled |-> TRUE, retry_max_attempts |-> 1]}
=============================================================================
